---- MODULE Spec2Model ----
(***************************************************************************)
(* Model of the invoice pipeline of the PDF viewer / data extraction       *)
(* dashboard API: the AI response normalizer (parseAIResponse of the       *)
(* Gemini and Groq services), the request validation middleware and the    *)
(* invoice CRUD / search routes over the MongoDB invoice collection.       *)
(*                                                                         *)
(* Strings that the code inspects character by character (names, numbers,  *)
(* dates, queries, ids) are sequences of one-character strings.            *)
(***************************************************************************)
EXTENDS Integers, Sequences, FiniteSets, TLC

VARIABLES
    aiIn,     \* input of one parseAIResponse call: raw text, Math.random draw, clock date
    aiOut,    \* what the call produced: <<>> before the call, <<result>> after
    store,    \* the invoices collection: _id -> document
    nextId,   \* number of ObjectIds generated so far
    clock,    \* server clock, in milliseconds
    pc,       \* per request slot: position of the handler
    req,      \* per request slot: the request being served
    loc,      \* per request slot: the handler's local variables
    resp,     \* per request slot: the response sent
    nReq,     \* number of requests received so far
    provider, \* the storage service getStorageService() selects in this deployment
    bucket,   \* the GridFS bucket 'uploads': _id -> file
    blobs,    \* the blobs put to Vercel Blob, by pathname
    nextUuid, \* number of UUIDs generated so far
    apiKeys,  \* the providers whose API key is set in process.env
    db        \* the Database singleton and the mongoose connection it drives

vars == <<aiIn, aiOut, store, nextId, clock, pc, req, loc, resp, nReq,
          provider, bucket, blobs, nextUuid, apiKeys, db>>

(***************************************************************************)
(* JavaScript values                                                       *)
(***************************************************************************)
Undefined == [t |-> "undef"]
JNull == [t |-> "null"]
JBool(b) == [t |-> "bool", b |-> b]
JNum(n) == [t |-> "num", n |-> n]
JStr(s) == [t |-> "str", s |-> s]
\* an array: its elements and the named (non-index) properties set on it
JArr(a) == [t |-> "arr", a |-> a, x |-> <<>>]
JObj(o) == [t |-> "obj", o |-> o]
EmptyObj == JObj(<<>>)

\* ToBoolean: null, undefined, false, 0 and "" are falsy; every object and array is truthy
Truthy(v) ==
    CASE v.t = "undef" -> FALSE
      [] v.t = "null" -> FALSE
      [] v.t = "bool" -> v.b
      [] v.t = "num" -> v.n # 0
      [] v.t = "str" -> v.s # <<>>
      [] OTHER -> TRUE

IsArray(v) == v.t = "arr"

\* a completion: a value, or a thrown exception
Ok(v) == [threw |-> FALSE, v |-> v]
Thrown == [threw |-> TRUE]

\* v[k] for a property name k: TypeError on null and undefined, undefined on a
\* primitive or when the property is missing
JsGet(v, k) ==
    CASE v.t \in {"null", "undef"} -> Thrown
      [] v.t = "obj" -> Ok(IF k \in DOMAIN v.o THEN v.o[k] ELSE Undefined)
      [] v.t = "arr" -> Ok(IF k \in DOMAIN v.x THEN v.x[k] ELSE Undefined)
      [] OTHER -> Ok(Undefined)

\* v[k] = w in strict mode (the services are ES modules): TypeError on null,
\* undefined and on every primitive
JsSet(v, k, w) ==
    CASE v.t = "obj" -> Ok([v EXCEPT !.o = (k :> w) @@ v.o])
      [] v.t = "arr" -> Ok([v EXCEPT !.x = (k :> w) @@ v.x])
      [] OTHER -> Thrown

(***************************************************************************)
(* Raw model text, as a sequence of lexical tokens                         *)
(***************************************************************************)
TP(c) == [k |-> "p", c |-> c]            \* one of { } [ ] : ,
TLit(c) == [k |-> "lit", c |-> c]        \* null, true, false
TStr(s) == [k |-> "str", s |-> s]        \* a double-quoted string
TNum(n) == [k |-> "num", n |-> n]        \* a number
TFenceJson == [k |-> "fence", c |-> "json"]   \* ```json
TFence == [k |-> "fence", c |-> ""]           \* ```
TNl == [k |-> "nl"]                      \* a newline
TWord(c) == [k |-> "word", c |-> c]      \* any other run of text

RECURSIVE StripFences(_)
\* response.replace(/```json\n?|\n?```/g, ''): at each position the first
\* alternative is tried first; a newline before ```json is consumed by the
\* second alternative together with the ```, which leaves the text "json"
StripFences(ts) ==
    IF ts = <<>> THEN <<>>
    ELSE LET h == Head(ts)
             r == Tail(ts)
         IN  CASE h = TFenceJson ->
                    IF r # <<>> /\ Head(r) = TNl THEN StripFences(Tail(r)) ELSE StripFences(r)
               [] h = TFence -> StripFences(r)
               [] h = TNl /\ r # <<>> /\ Head(r) = TFence -> StripFences(Tail(r))
               [] h = TNl /\ r # <<>> /\ Head(r) = TFenceJson ->
                    <<TWord("json")>> \o StripFences(Tail(r))
               [] OTHER -> <<h>> \o StripFences(r)

RECURSIVE TrimStart(_)
TrimStart(ts) == IF ts # <<>> /\ Head(ts) = TNl THEN TrimStart(Tail(ts)) ELSE ts

RECURSIVE TrimEnd(_)
TrimEnd(ts) ==
    IF ts # <<>> /\ ts[Len(ts)] = TNl THEN TrimEnd(SubSeq(ts, 1, Len(ts) - 1)) ELSE ts

\* String.prototype.trim
Trim(ts) == TrimEnd(TrimStart(ts))

(***************************************************************************)
(* JSON.parse over tokens: a value, optional whitespace, then end of text  *)
(***************************************************************************)
PFail == [ok |-> FALSE]
PDone(v, rest) == [ok |-> TRUE, v |-> v, rest |-> rest]

IsP(ts, c) == ts # <<>> /\ Head(ts).k = "p" /\ Head(ts).c = c

LitValue(c) ==
    CASE c = "null" -> JNull
      [] c = "true" -> JBool(TRUE)
      [] OTHER -> JBool(FALSE)

RECURSIVE ParseValue(_)
RECURSIVE ParseMembers(_, _, _)
RECURSIVE ParseElements(_, _, _)

ParseValue(ts0) ==
    LET ts == TrimStart(ts0) IN
    IF ts = <<>> THEN PFail
    ELSE LET h == Head(ts)
             r == Tail(ts)
         IN  CASE h.k = "lit" -> PDone(LitValue(h.c), r)
               [] h.k = "num" -> PDone(JNum(h.n), r)
               [] h.k = "str" -> PDone(JStr(h.s), r)
               [] h.k = "p" /\ h.c = "{" -> ParseMembers(r, <<>>, FALSE)
               [] h.k = "p" /\ h.c = "[" -> ParseElements(r, <<>>, FALSE)
               [] OTHER -> PFail

\* after "{" (afterComma = FALSE) or after a "," inside an object
ParseMembers(ts0, acc, afterComma) ==
    LET ts == TrimStart(ts0) IN
    IF IsP(ts, "}") /\ ~afterComma THEN PDone(JObj(acc), Tail(ts))
    ELSE IF ts = <<>> \/ Head(ts).k # "str" THEN PFail
    ELSE LET key == Head(ts).s
             c == TrimStart(Tail(ts))
         IN  IF ~IsP(c, ":") THEN PFail
             ELSE LET val == ParseValue(Tail(c)) IN
                  IF ~val.ok THEN PFail
                  ELSE LET acc2 == (key :> val.v) @@ acc   \* a repeated key: the last wins
                           n == TrimStart(val.rest)
                       IN  IF IsP(n, ",") THEN ParseMembers(Tail(n), acc2, TRUE)
                           ELSE IF IsP(n, "}") THEN PDone(JObj(acc2), Tail(n))
                           ELSE PFail

\* after "[" (afterComma = FALSE) or after a "," inside an array
ParseElements(ts0, acc, afterComma) ==
    LET ts == TrimStart(ts0) IN
    IF IsP(ts, "]") /\ ~afterComma THEN PDone(JArr(acc), Tail(ts))
    ELSE LET val == ParseValue(ts) IN
         IF ~val.ok THEN PFail
         ELSE LET acc2 == Append(acc, val.v)
                  n == TrimStart(val.rest)
              IN  IF IsP(n, ",") THEN ParseElements(Tail(n), acc2, TRUE)
                  ELSE IF IsP(n, "]") THEN PDone(JArr(acc2), Tail(n))
                  ELSE PFail

\* JSON.parse(text): the parsed value, or a SyntaxError
JsonParse(ts) ==
    LET p == ParseValue(ts) IN
    IF p.ok /\ TrimStart(p.rest) = <<>> THEN Ok(p.v) ELSE Thrown

(***************************************************************************)
(* Property names and string constants of the services                     *)
(***************************************************************************)
K_vendor == <<"v", "e", "n", "d", "o", "r">>
K_invoice == <<"i", "n", "v", "o", "i", "c", "e">>
K_name == <<"n", "a", "m", "e">>
K_address == <<"a", "d", "d", "r", "e", "s", "s">>
K_taxId == <<"t", "a", "x", "I", "d">>
K_number == <<"n", "u", "m", "b", "e", "r">>
K_date == <<"d", "a", "t", "e">>
K_currency == <<"c", "u", "r", "r", "e", "n", "c", "y">>
K_subtotal == <<"s", "u", "b", "t", "o", "t", "a", "l">>
K_taxPercent == <<"t", "a", "x", "P", "e", "r", "c", "e", "n", "t">>
K_total == <<"t", "o", "t", "a", "l">>
K_poNumber == <<"p", "o", "N", "u", "m", "b", "e", "r">>
K_poDate == <<"p", "o", "D", "a", "t", "e">>
K_lineItems == <<"l", "i", "n", "e", "I", "t", "e", "m", "s">>
K_description == <<"d", "e", "s", "c", "r", "i", "p", "t", "i", "o", "n">>
K_unitPrice == <<"u", "n", "i", "t", "P", "r", "i", "c", "e">>
K_quantity == <<"q", "u", "a", "n", "t", "i", "t", "y">>

UnknownVendor == <<"U", "n", "k", "n", "o", "w", "n", " ", "V", "e", "n", "d", "o", "r">>
Usd == <<"U", "S", "D">>
DocPrefix == <<"D", "O", "C", "-">>

DigitChars == <<"0", "1", "2", "3", "4", "5", "6", "7", "8", "9">>
Digit(n) == DigitChars[n + 1]

RECURSIVE Decimal(_)
\* String(n) for an integer n >= 0
Decimal(n) == IF n < 10 THEN <<Digit(n)>> ELSE Append(Decimal(n \div 10), Digit(n % 10))

RECURSIVE PadStart(_, _)
\* zero padding to the given width
PadStart(s, width) == IF Len(s) >= width THEN s ELSE PadStart(<<"0">> \o s, width)

\* new Date().toISOString().split('T')[0] for the UTC date d = [y, m, d]
IsoDate(d) ==
    PadStart(Decimal(d.y), 4) \o <<"-">> \o PadStart(Decimal(d.m), 2)
        \o <<"-">> \o PadStart(Decimal(d.d), 2)

\* `DOC-${Math.floor(1000 + Math.random() * 9000)}`, Math.random() = r / 10000
DocNumber(r) == DocPrefix \o Decimal(1000 + ((r * 9000) \div 10000))

(***************************************************************************)
(* parseAIResponse                                                         *)
(***************************************************************************)
\* if (!parsed[section]) parsed[section] = {}
EnsureSection(c, section) ==
    IF c.threw THEN c
    ELSE LET g == JsGet(c.v, section) IN
         IF g.threw THEN Thrown
         ELSE IF ~Truthy(g.v) THEN JsSet(c.v, section, EmptyObj)
         ELSE c

\* parsed[section][key] = dflt, the section object being shared with parsed
AssignField(c, section, key, dflt) ==
    LET sec == JsGet(c.v, section) IN
    IF sec.threw THEN Thrown
    ELSE LET s2 == JsSet(sec.v, key, dflt) IN
         IF s2.threw THEN Thrown ELSE JsSet(c.v, section, s2.v)

\* parsed[section][key], a TypeError when parsed[section] is undefined or null
ReadField(c, section, key) ==
    LET sec == JsGet(c.v, section) IN
    IF sec.threw THEN Thrown ELSE JsGet(sec.v, key)

\* a defaulting that leaves every value but undefined and null in place
DefaultIfNullish(c, section, key, dflt) ==
    IF c.threw THEN c
    ELSE LET g == ReadField(c, section, key) IN
         IF g.threw THEN Thrown
         ELSE IF g.v \in {Undefined, JNull} THEN AssignField(c, section, key, dflt)
         ELSE c

\* if (!parsed[section][key] || parsed[section][key] === null) parsed[section][key] = dflt
DefaultIfFalsy(c, section, key, dflt) ==
    IF c.threw THEN c
    ELSE LET g == ReadField(c, section, key) IN
         IF g.threw THEN Thrown
         ELSE IF ~Truthy(g.v) \/ g.v = JNull THEN AssignField(c, section, key, dflt)
         ELSE c

\* if (!Array.isArray(parsed[section][key])) parsed[section][key] = []
DefaultIfNotArray(c, section, key) ==
    IF c.threw THEN c
    ELSE LET g == ReadField(c, section, key) IN
         IF g.threw THEN Thrown
         ELSE IF ~IsArray(g.v) THEN AssignField(c, section, key, JArr(<<>>))
         ELSE c

\* a catch block whose literal has no currency
ShellWithoutCurrency(rnd, today) ==
    JObj((K_vendor :> JObj((K_name :> JStr(UnknownVendor)) @@ (K_address :> Undefined)
                            @@ (K_taxId :> Undefined)))
         @@ (K_invoice :> JObj((K_number :> JStr(DocNumber(rnd)))
                            @@ (K_date :> JStr(IsoDate(today)))
                            @@ (K_lineItems :> JArr(<<>>)))))

\* the literal returned by the catch block
DefaultShell(rnd, today) ==
    JObj((K_vendor :> JObj((K_name :> JStr(UnknownVendor)) @@ (K_address :> Undefined)
                            @@ (K_taxId :> Undefined)))
         @@ (K_invoice :> JObj((K_number :> JStr(DocNumber(rnd)))
                            @@ (K_date :> JStr(IsoDate(today)))
                            @@ (K_currency :> JStr(Usd))
                            @@ (K_subtotal :> Undefined) @@ (K_taxPercent :> Undefined)
                            @@ (K_total :> Undefined) @@ (K_poNumber :> Undefined)
                            @@ (K_poDate :> Undefined)
                            @@ (K_lineItems :> JArr(<<>>)))))

\* the try block: the clean-up, JSON.parse and the defaulting statements in order
NormalizeTry(response, rnd, today) ==
    LET cleanResponse == Trim(StripFences(response))
        parsed == JsonParse(cleanResponse)
        s1 == EnsureSection(parsed, K_vendor)
        s2 == EnsureSection(s1, K_invoice)
        s3 == DefaultIfFalsy(s2, K_vendor, K_name, JStr(UnknownVendor))
        s4 == DefaultIfFalsy(s3, K_invoice, K_number, JStr(DocNumber(rnd)))
        s5 == DefaultIfFalsy(s4, K_invoice, K_date, JStr(IsoDate(today)))
        s6 == DefaultIfFalsy(s5, K_invoice, K_currency, JStr(Usd))
    IN  DefaultIfNotArray(s6, K_invoice, K_lineItems)

\* a parseAIResponse without its try/catch
NormalizeNoCatch(response, rnd, today) == NormalizeTry(response, rnd, today)

\* GeminiAIService.parseAIResponse: the completion of the call
GeminiParseAIResponse(response, rnd, today) ==
    LET t == NormalizeTry(response, rnd, today) IN
    IF t.threw THEN Ok(DefaultShell(rnd, today)) ELSE t

\* GroqAIService.parseAIResponse: the same statements, a second copy in the source
GroqParseAIResponse(response, rnd, today) ==
    LET t == NormalizeTry(response, rnd, today) IN
    IF t.threw THEN Ok(DefaultShell(rnd, today)) ELSE t

RECURSIVE JsonForm(_)
\* res.json(value): what JSON.stringify keeps of a value. A property whose
\* value is undefined is left out, an undefined array element becomes null,
\* and the named properties of an array are left out.
JsonForm(v) ==
    CASE v.t = "obj" ->
            JObj([k \in {j \in DOMAIN v.o : v.o[j].t # "undef"} |-> JsonForm(v.o[k])])
      [] v.t = "arr" ->
            JArr([i \in DOMAIN v.a |-> IF v.a[i].t = "undef" THEN JNull ELSE JsonForm(v.a[i])])
      [] OTHER -> v

(***************************************************************************)
(* The texts a model may return: JSON documents of every shape, written    *)
(* out as text, wrapped in code fences or prose, cut short, or no JSON     *)
(***************************************************************************)
RECURSIVE ModelText(_)
RECURSIVE MembersText(_, _)
RECURSIVE ElementsText(_)

\* the JSON text of a value
ModelText(v) ==
    CASE v.t = "null" -> <<TLit("null")>>
      [] v.t = "bool" -> <<TLit(IF v.b THEN "true" ELSE "false")>>
      [] v.t = "num" -> <<TNum(v.n)>>
      [] v.t = "str" -> <<TStr(v.s)>>
      [] v.t = "arr" -> <<TP("[")>> \o ElementsText(v.a) \o <<TP("]")>>
      [] OTHER -> <<TP("{")>> \o MembersText(v.o, DOMAIN v.o) \o <<TP("}")>>

MembersText(o, keys) ==
    IF keys = {} THEN <<>>
    ELSE LET k == CHOOSE x \in keys : TRUE
             rest == keys \ {k}
         IN  <<TStr(k), TP(":")>> \o ModelText(o[k])
                 \o (IF rest = {} THEN <<>> ELSE <<TP(",")>> \o MembersText(o, rest))

ElementsText(a) ==
    IF a = <<>> THEN <<>>
    ELSE ModelText(Head(a))
             \o (IF Tail(a) = <<>> THEN <<>> ELSE <<TP(",")>> \o ElementsText(Tail(a)))

Acme == <<"A", "c", "m", "e">>
Inv1 == <<"I", "N", "V", "-", "1">>
Eur == <<"E", "U", "R">>
Street == <<"1", " ", "M", "a", "i", "n", " ", "S", "t">>
Widget == <<"W", "i", "d", "g", "e", "t">>
NotAnArray == <<"n", "o", "t", "-", "a", "n", "-", "a", "r", "r", "a", "y">>
DateYmd == <<"2", "0", "2", "4", "-", "0", "1", "-", "1", "5">>
DateDmy == <<"1", "5", "/", "0", "1", "/", "2", "0", "2", "4">>
DateFeb30 == <<"2", "0", "2", "4", "-", "0", "2", "-", "3", "0">>

\* a line item as a model may write it: a negative price, a total that is not
\* price x quantity
OddLineItem ==
    JObj((K_description :> JStr(Widget)) @@ (K_unitPrice :> JNum(-5))
         @@ (K_quantity :> JNum(2)) @@ (K_total :> JNum(99)))

VendorSamples ==
    { JNull, JNum(0), JStr(<<>>), JStr(Acme), JBool(TRUE), JArr(<<>>), EmptyObj,
      JObj(K_name :> JNull), JObj(K_name :> JStr(<<>>)), JObj(K_name :> JStr(Acme)),
      JObj(K_name :> JNum(5)),
      JObj((K_name :> JStr(Acme)) @@ (K_address :> JStr(Street))) }

InvoiceSamples ==
    { JNull, JStr(Inv1), JNum(7), JArr(<<>>), EmptyObj,
      JObj(K_lineItems :> JStr(NotAnArray)),
      JObj((K_number :> JNull) @@ (K_date :> JNull) @@ (K_currency :> JNull)
           @@ (K_lineItems :> JNull)),
      JObj((K_number :> JStr(<<>>)) @@ (K_date :> JStr(<<>>))),
      JObj((K_number :> JStr(Inv1)) @@ (K_date :> JStr(DateYmd))
           @@ (K_currency :> JStr(Eur)) @@ (K_lineItems :> JArr(<<OddLineItem>>))),
      JObj((K_number :> JStr(Inv1)) @@ (K_date :> JStr(DateDmy))),
      JObj((K_number :> JNum(42)) @@ (K_date :> JNum(20240115))),
      JObj(K_date :> JStr(DateFeb30)),
      JObj(K_lineItems :> JObj(K_total :> JNum(1))) }

\* a section that is present with one of the sample values, or absent
Section(k, samples) == {<<>>} \cup {k :> v : v \in samples}

ModelDocs ==
    { JNull, JNum(5), JNum(0), JStr(Acme), JBool(TRUE), JArr(<<>>), JArr(<<JNum(1)>>) }
    \cup { JObj(v @@ i) : v \in Section(K_vendor, VendorSamples),
                          i \in Section(K_invoice, InvoiceSamples) }

\* the ways a model presents its JSON
Presentations(t) ==
    { t,
      <<TFenceJson, TNl>> \o t \o <<TNl, TFence>>,
      <<TFence, TNl>> \o t \o <<TNl, TFence, TNl>>,
      <<TWord("Here is the JSON"), TNl, TFenceJson, TNl>> \o t \o <<TNl, TFence>>,
      t \o <<TWord("Hope this helps")>>,
      SubSeq(t, 1, Len(t) - 1) }

ModelTexts == UNION { Presentations(ModelText(d)) : d \in ModelDocs }

\* Math.random() in ten-thousandths: the least, a middle and the greatest draw
RandomDraws == {0, 5000, 9999}

\* UTC dates of the clock
ClockDates ==
    { [y |-> 2024, m |-> 1, d |-> 15], [y |-> 2026, m |-> 11, d |-> 2],
      [y |-> 2024, m |-> 12, d |-> 31] }

(***************************************************************************)
(* utils/validation: the Joi schemas and the validate middleware           *)
(***************************************************************************)
K_fileId == <<"f", "i", "l", "e", "I", "d">>
K_fileName == <<"f", "i", "l", "e", "N", "a", "m", "e">>
K_createdAt == <<"c", "r", "e", "a", "t", "e", "d", "A", "t">>
K_updatedAt == <<"u", "p", "d", "a", "t", "e", "d", "A", "t">>
K_id == <<"_", "i", "d">>
K_v == <<"_", "_", "v">>

VendorNameMax == 200
VendorAddressMax == 500
VendorTaxIdMax == 50
DescriptionMax == 500
InvoiceNumberMax == 100
CurrencyMax == 10
TaxPercentMax == 100
PoNumberMax == 100
FileNameMax == 255

\* Joi.string().trim() with an optional max(n); lim is <<>> or <<n>>
JoiString(required, lim) ==
    [kind |-> "string", required |-> required, lim |-> lim, only |-> {}, dflt |-> <<>>]
\* Joi.string().valid(...)
JoiOneOf(values) ==
    [kind |-> "string", required |-> FALSE, lim |-> <<>>, only |-> values, dflt |-> <<>>]
\* a number rule without its lower bound
JoiNumberNoMin(required, lo, lim) ==
    [kind |-> "number", required |-> required, lo |-> lo - 1000, lim |-> lim, dflt |-> <<>>]

\* Joi.number().min(lo) with an optional max(n)
JoiNumber(required, lo, lim) ==
    [kind |-> "number", required |-> required, lo |-> lo, lim |-> lim, dflt |-> <<>>]
\* Joi.array().items(item)
JoiArray(item) ==
    [kind |-> "array", required |-> FALSE, item |-> item, dflt |-> <<>>]
\* Joi.object(keys)
JoiObject(keys, required) ==
    [kind |-> "object", required |-> required, keys |-> keys, dflt |-> <<>>]
\* rule.default(v)
WithDefault(rule, v) == [rule EXCEPT !.dflt = <<v>>]

vendorSchema(required) ==
    JoiObject((K_name :> JoiString(TRUE, <<VendorNameMax>>))
              @@ (K_address :> JoiString(FALSE, <<VendorAddressMax>>))
              @@ (K_taxId :> JoiString(FALSE, <<VendorTaxIdMax>>)), required)

lineItemSchema ==
    JoiObject((K_description :> JoiString(TRUE, <<DescriptionMax>>))
              @@ (K_unitPrice :> JoiNumber(TRUE, 0, <<>>))
              @@ (K_quantity :> JoiNumber(TRUE, 0, <<>>))
              @@ (K_total :> JoiNumber(TRUE, 0, <<>>)), FALSE)

invoiceDataSchema(required) ==
    JoiObject((K_number :> JoiString(TRUE, <<InvoiceNumberMax>>))
              @@ (K_date :> JoiString(TRUE, <<>>))
              @@ (K_currency :> WithDefault(JoiString(FALSE, <<CurrencyMax>>), JStr(Usd)))
              @@ (K_subtotal :> JoiNumber(FALSE, 0, <<>>))
              @@ (K_taxPercent :> JoiNumber(FALSE, 0, <<TaxPercentMax>>))
              @@ (K_total :> JoiNumber(FALSE, 0, <<>>))
              @@ (K_poNumber :> JoiString(FALSE, <<PoNumberMax>>))
              @@ (K_poDate :> JoiString(FALSE, <<>>))
              @@ (K_lineItems :> WithDefault(JoiArray(lineItemSchema), JArr(<<>>))),
              required)

createInvoiceSchema ==
    JoiObject((K_fileId :> JoiString(TRUE, <<>>))
              @@ (K_fileName :> JoiString(TRUE, <<FileNameMax>>))
              @@ (K_vendor :> vendorSchema(TRUE))
              @@ (K_invoice :> invoiceDataSchema(TRUE)), FALSE)

\* an update schema that lets createdAt through
updateSchemaWithCreatedAt ==
    JoiObject((K_fileId :> JoiString(FALSE, <<>>))
              @@ (K_fileName :> JoiString(FALSE, <<FileNameMax>>))
              @@ (K_vendor :> vendorSchema(FALSE))
              @@ (K_invoice :> invoiceDataSchema(FALSE))
              @@ (K_createdAt :> JoiString(FALSE, <<>>)), FALSE)

updateInvoiceSchema ==
    JoiObject((K_fileId :> JoiString(FALSE, <<>>))
              @@ (K_fileName :> JoiString(FALSE, <<FileNameMax>>))
              @@ (K_vendor :> vendorSchema(FALSE))
              @@ (K_invoice :> invoiceDataSchema(FALSE)), FALSE)

K_q == <<"q">>
K_page == <<"p", "a", "g", "e">>
K_limit == <<"l", "i", "m", "i", "t">>
K_sortBy == <<"s", "o", "r", "t", "B", "y">>
K_sortOrder == <<"s", "o", "r", "t", "O", "r", "d", "e", "r">>
S_vendorName == <<"v", "e", "n", "d", "o", "r", ".", "n", "a", "m", "e">>
S_invoiceNumber == <<"i", "n", "v", "o", "i", "c", "e", ".", "n", "u", "m", "b", "e", "r">>
S_asc == <<"a", "s", "c">>
S_desc == <<"d", "e", "s", "c">>

QueryMax == 200
LimitMax == 100
DefaultLimit == 10

\* a search schema whose page and limit have no range
searchSchemaNoRange ==
    JoiObject((K_q :> JoiString(FALSE, <<QueryMax>>))
              @@ (K_page :> WithDefault(JoiNumber(FALSE, 0, <<>>), JNum(1)))
              @@ (K_limit :> WithDefault(JoiNumber(FALSE, 0, <<>>), JNum(DefaultLimit)))
              @@ (K_sortBy :> WithDefault(JoiOneOf({K_createdAt, K_updatedAt, S_vendorName,
                                                    S_invoiceNumber}), JStr(K_createdAt)))
              @@ (K_sortOrder :> WithDefault(JoiOneOf({S_asc, S_desc}), JStr(S_desc))),
              FALSE)

searchQuerySchema ==
    JoiObject((K_q :> JoiString(FALSE, <<QueryMax>>))
              @@ (K_page :> WithDefault(JoiNumber(FALSE, 1, <<>>), JNum(1)))
              @@ (K_limit :> WithDefault(JoiNumber(FALSE, 1, <<LimitMax>>), JNum(DefaultLimit)))
              @@ (K_sortBy :> WithDefault(JoiOneOf({K_createdAt, K_updatedAt, S_vendorName,
                                                    S_invoiceNumber}), JStr(K_createdAt)))
              @@ (K_sortOrder :> WithDefault(JoiOneOf({S_asc, S_desc}), JStr(S_desc))),
              FALSE)

RECURSIVE DigitsValue(_)
\* Number(s) for a string of decimal digits
DigitsValue(s) ==
    IF s = <<>> THEN 0
    ELSE 10 * DigitsValue(SubSeq(s, 1, Len(s) - 1))
             + (CHOOSE n \in 0..9 : Digit(n) = s[Len(s)])

IsDigits(s) == s # <<>> /\ \A i \in 1..Len(s) : \E n \in 0..9 : Digit(n) = s[i]

RECURSIVE TrimSpaces(_)
\* String.prototype.trim on a character sequence
TrimSpaces(s) ==
    IF s # <<>> /\ Head(s) = " " THEN TrimSpaces(Tail(s))
    ELSE IF s # <<>> /\ s[Len(s)] = " " THEN TrimSpaces(SubSeq(s, 1, Len(s) - 1))
    ELSE s

RECURSIVE JoiValidate(_, _)
\* schema.validate(v, {abortEarly: false, allowUnknown: false, stripUnknown: true}):
\* [ok, v] with v the converted value (strings trimmed, defaults filled in,
\* unknown keys stripped); null and values of another type are errors
JoiValidate(rule, v) ==
    CASE rule.kind = "string" ->
            IF v.t # "str" THEN [ok |-> FALSE]
            ELSE LET s == TrimSpaces(v.s) IN
                 IF \/ s = <<>>
                    \/ rule.lim # <<>> /\ Len(s) > rule.lim[1]
                    \/ rule.only # {} /\ s \notin rule.only
                 THEN [ok |-> FALSE]
                 ELSE [ok |-> TRUE, v |-> JStr(s)]
      [] rule.kind = "number" ->
            \* a string of digits is converted (the numbers here are the naturals)
            IF v.t \notin {"num", "str"} \/ (v.t = "str" /\ ~IsDigits(TrimSpaces(v.s)))
            THEN [ok |-> FALSE]
            ELSE LET n == IF v.t = "num" THEN v.n ELSE DigitsValue(TrimSpaces(v.s)) IN
                 IF n < rule.lo \/ (rule.lim # <<>> /\ n > rule.lim[1])
                 THEN [ok |-> FALSE]
                 ELSE [ok |-> TRUE, v |-> JNum(n)]
      [] rule.kind = "array" ->
            IF v.t # "arr" THEN [ok |-> FALSE]
            ELSE LET items == [i \in DOMAIN v.a |-> JoiValidate(rule.item, v.a[i])] IN
                 IF \E i \in DOMAIN items : ~items[i].ok THEN [ok |-> FALSE]
                 ELSE [ok |-> TRUE, v |-> JArr([i \in DOMAIN items |-> items[i].v])]
      [] OTHER ->
            IF v.t # "obj" THEN [ok |-> FALSE]
            ELSE LET given == DOMAIN rule.keys \cap DOMAIN v.o
                     absent == DOMAIN rule.keys \ DOMAIN v.o
                     sub == [k \in given |-> JoiValidate(rule.keys[k], v.o[k])]
                 IN  IF \/ \E k \in given : ~sub[k].ok
                        \/ \E k \in absent : rule.keys[k].required
                     THEN [ok |-> FALSE]
                     ELSE [ok |-> TRUE,
                           v |-> JObj([k \in given \cup {a \in absent : rule.keys[a].dflt # <<>>}
                                         |-> IF k \in given THEN sub[k].v
                                             ELSE rule.keys[k].dflt[1]])]

(***************************************************************************)
(* models/Invoice and the invoices collection                              *)
(***************************************************************************)
ObjectIdLen == 24
HexChars ==
    {"0", "1", "2", "3", "4", "5", "6", "7", "8", "9",
     "a", "b", "c", "d", "e", "f", "A", "B", "C", "D", "E", "F"}

\* a format check that accepts every id
AnyIdFormat(id) == TRUE

\* id.match(/^[0-9a-fA-F]{24}$/)
IsObjectIdFormat(id) ==
    Len(id) = ObjectIdLen /\ \A i \in 1..Len(id) : id[i] \in HexChars

\* the n-th ObjectId the driver generates, as its hexadecimal string
ObjectId(n) == [i \in 1..ObjectIdLen |-> Digit(n)]

\* new Date().toISOString() at clock value ms: the ISO string of that instant
\* (ISO strings of this form are ordered as their instants are)
IsoTime(ms) == [t |-> "time", ms |-> ms]

\* InvoiceDataSchema defaults: currency 'USD', lineItems []
InvoiceDataDefaults(inv) ==
    JObj(inv.o @@ (K_currency :> JStr(Usd)) @@ (K_lineItems :> JArr(<<>>)))

\* new Invoice(data): the document with its generated _id and version key;
\* paths outside the schema are dropped, schema defaults are filled in
NewInvoice(data, id) ==
    JObj((K_id :> JStr(id)) @@ (K_v :> JNum(0))
         @@ [k \in DOMAIN data.o \cap {K_fileId, K_fileName, K_vendor, K_invoice,
                                        K_createdAt, K_updatedAt}
               |-> IF k = K_invoice THEN InvoiceDataDefaults(data.o[k]) ELSE data.o[k]])

\* a save hook that stamps updatedAt on new documents too
PreSaveAlways(doc, isNew, isModified, now) == JObj((K_updatedAt :> IsoTime(now)) @@ doc.o)

\* InvoiceSchema.pre('save'): updatedAt is set on a modified document that is not new
PreSave(doc, isNew, isModified, now) ==
    IF isModified /\ ~isNew THEN JObj((K_updatedAt :> IsoTime(now)) @@ doc.o) ELSE doc

\* a findOne that never finds a document
FindNothing(st, fileId) == {}

\* Invoice.findOne({fileId}): the ids of the documents with that fileId
FindByFileId(st, fileId) == {id \in DOMAIN st : st[id].o[K_fileId].s = fileId}

\* a unique index on fileId that does not reject anything
UniqueIndexOff(st, id, fileId) == FALSE

\* the unique index on fileId: a write that would give document id this fileId
\* is rejected with E11000 duplicate key when another document has it
DuplicateKey(st, id, fileId) ==
    \E other \in DOMAIN st \ {id} : st[other].o[K_fileId].s = fileId

\* an update that replaces the stored document by updateData
ReplaceDocument(doc, updateData) ==
    JObj(updateData.o @@ (K_id :> doc.o[K_id]) @@ (K_v :> doc.o[K_v]))

\* an update in which the stored sections win over those of updateData
KeepStored(doc, updateData) == JObj(doc.o @@ updateData.o)

\* the update document of findByIdAndUpdate(id, updateData): $set of each
\* top-level key of updateData, a nested object replacing the stored one
ApplySet(doc, updateData) == JObj(updateData.o @@ doc.o)

\* invoice.save() of a new document: the insert, refused by the unique index
InsertOne(st, doc) ==
    IF DuplicateKey(st, doc.o[K_id].s, doc.o[K_fileId].s)
    THEN [r |-> "duplicate key", st |-> st]
    ELSE [r |-> "ok", st |-> (doc.o[K_id].s :> doc) @@ st]

\* an update with upsert: a missing document is created
FindByIdAndUpsert(st, id, updateData) ==
    [r |-> "ok", st |-> (id :> JObj(updateData.o @@ (K_id :> JStr(id)))) @@ st]

\* Invoice.findByIdAndUpdate(id, updateData, {new, runValidators, lean}): one
\* atomic operation of the database
FindByIdAndUpdate(st, id, updateData) ==
    IF id \notin DOMAIN st THEN [r |-> "null", st |-> st]
    ELSE IF K_fileId \in DOMAIN updateData.o
            /\ DuplicateKey(st, id, updateData.o[K_fileId].s)
    THEN [r |-> "duplicate key", st |-> st]
    ELSE [r |-> "ok", st |-> [st EXCEPT ![id] = ApplySet(@, updateData)]]

\* Invoice.findByIdAndDelete(id)
FindByIdAndDelete(st, id) ==
    IF id \notin DOMAIN st THEN [r |-> "null", st |-> st]
    ELSE [r |-> "ok", st |-> [i \in DOMAIN st \ {id} |-> st[i]]]

(***************************************************************************)
(* The queries of GET /invoices: $regex filters, sort, skip and limit       *)
(***************************************************************************)
UpperLetters == <<"A", "B", "C", "D", "E", "F", "G", "H", "I", "J", "K", "L", "M", "N", "O", "P", "Q", "R", "S", "T", "U", "V", "W", "X", "Y", "Z">>
LowerLetters == <<"a", "b", "c", "d", "e", "f", "g", "h", "i", "j", "k", "l", "m", "n", "o", "p", "q", "r", "s", "t", "u", "v", "w", "x", "y", "z">>

\* case folding of the 'i' option
Fold(c) ==
    IF \E i \in DOMAIN UpperLetters : UpperLetters[i] = c
    THEN LowerLetters[CHOOSE i \in DOMAIN UpperLetters : UpperLetters[i] = c]
    ELSE c

RECURSIVE RegexCompile(_)
\* the pattern as the database's regular expression engine reads it: a sequence
\* of atoms, each a literal character or '.', each with an optional '*'.  A '*'
\* with nothing to repeat and a '(' without its ')' are errors.  (The patterns
\* of this model hold no other metacharacter.)
RegexCompile(pat) ==
    IF pat = <<>> THEN [ok |-> TRUE, atoms |-> <<>>]
    ELSE IF Head(pat) \in {"*", "(", ")"} THEN [ok |-> FALSE]
    ELSE LET star == Len(pat) >= 2 /\ pat[2] = "*"
             rest == RegexCompile(SubSeq(pat, IF star THEN 3 ELSE 2, Len(pat)))
         IN  IF ~rest.ok THEN [ok |-> FALSE]
             ELSE [ok |-> TRUE,
                   atoms |-> <<[c |-> Head(pat), star |-> star]>> \o rest.atoms]

AtomMatches(atom, c) == atom.c = "." \/ Fold(atom.c) = Fold(c)

RECURSIVE MatchHere(_, _)
\* the atoms match a prefix of s
MatchHere(atoms, s) ==
    IF atoms = <<>> THEN TRUE
    ELSE IF Head(atoms).star
    THEN \/ MatchHere(Tail(atoms), s)
         \/ s # <<>> /\ AtomMatches(Head(atoms), Head(s)) /\ MatchHere(atoms, Tail(s))
    ELSE s # <<>> /\ AtomMatches(Head(atoms), Head(s)) /\ MatchHere(Tail(atoms), Tail(s))

\* {$regex: pattern, $options: 'i'} on a string field: an unanchored match
RegexTest(atoms, s) == \E i \in 1..(Len(s) + 1) : MatchHere(atoms, SubSeq(s, i, Len(s)))

\* the filter {} or {$or: [{'vendor.name': re}, {'invoice.number': re}]} on a document
FilterMatches(filter, doc) ==
    \/ filter.q = <<>>
    \/ LET re == RegexCompile(filter.q[1]) IN
       \/ RegexTest(re.atoms, doc.o[K_vendor].o[K_name].s)
       \/ RegexTest(re.atoms, doc.o[K_invoice].o[K_number].s)

\* the database refuses a filter whose pattern does not compile
FilterValid(filter) == filter.q = <<>> \/ RegexCompile(filter.q[1]).ok

AsciiChars == <<" ", "(", "*", "-", ".", "0", "1", "2", "3", "4", "5", "6", "7", "8", "9", "A", "B", "C", "D", "E", "F", "G", "H", "I", "J", "K", "L", "M", "N", "O", "P", "Q", "R", "S", "T", "U", "V", "W", "X", "Y", "Z", "_", "a", "b", "c", "d", "e", "f", "g", "h", "i", "j", "k", "l", "m", "n", "o", "p", "q", "r", "s", "t", "u", "v", "w", "x", "y", "z">>
CharRank(c) == CHOOSE i \in DOMAIN AsciiChars : AsciiChars[i] = c

\* the value a document is sorted by, as a sequence of numbers: missing sorts first
SortKey(doc, field) ==
    CASE field \in {K_createdAt, K_updatedAt} ->
            IF field \in DOMAIN doc.o THEN <<doc.o[field].ms>> ELSE <<>>
      [] field = S_vendorName ->
            [i \in DOMAIN doc.o[K_vendor].o[K_name].s
               |-> CharRank(doc.o[K_vendor].o[K_name].s[i])]
      [] OTHER ->
            [i \in DOMAIN doc.o[K_invoice].o[K_number].s
               |-> CharRank(doc.o[K_invoice].o[K_number].s[i])]

RECURSIVE KeyLeq(_, _)
KeyLeq(a, b) ==
    IF a = <<>> THEN TRUE
    ELSE IF b = <<>> THEN FALSE
    ELSE Head(a) < Head(b) \/ (Head(a) = Head(b) /\ KeyLeq(Tail(a), Tail(b)))

\* a count that ignores the filter
CountAll(st, filter) == Cardinality(DOMAIN st)

\* Invoice.countDocuments(query)
CountDocuments(st, filter) ==
    Cardinality({id \in DOMAIN st : FilterMatches(filter, st[id])})

\* Invoice.find(query).sort(sort): the orders the database may return the
\* matching documents in; documents with equal sort keys come in any order
FindSorted(st, filter, field, dir) ==
    LET ids == {id \in DOMAIN st : FilterMatches(filter, st[id])}
        n == Cardinality(ids)
    IN  { s \in [1..n -> ids] :
            /\ \A i, j \in 1..n : i # j => s[i] # s[j]
            /\ \A i, j \in 1..n : i < j =>
                  IF dir = 1 THEN KeyLeq(SortKey(st[s[i]], field), SortKey(st[s[j]], field))
                  ELSE KeyLeq(SortKey(st[s[j]], field), SortKey(st[s[i]], field)) }

\* .skip(skip).limit(limit) of a result
SkipLimit(s, skip, limit) ==
    SubSeq(s, skip + 1, IF skip + limit < Len(s) THEN skip + limit ELSE Len(s))

\* ((page || 1) - 1) * (limit || 10)
SkipOf(page, limit) ==
    ((IF page = 0 THEN 1 ELSE page) - 1) * (IF limit = 0 THEN DefaultLimit ELSE limit)

\* Math.ceil(total / limit)
CeilDiv(total, limit) == (total + limit - 1) \div limit

(***************************************************************************)
(* services/fileStorage.service: the GridFS and Vercel Blob services       *)
(***************************************************************************)
\* the n-th UUID crypto.randomUUID() returns: 8-4-4-4-12 hexadecimal digits
Uuid(n) == [i \in 1..36 |-> IF i \in {9, 14, 19, 24} THEN "-" ELSE Digit(n)]

NotDash(c) == c # "-"
\* fileId.replace(/-/g, '')
StripDashes(s) == SelectSeq(s, NotDash)

\* String.prototype.padEnd(width, c)
PadEnd(s, width, c) ==
    IF Len(s) >= width THEN s ELSE s \o [i \in 1..(width - Len(s)) |-> c]

\* new ObjectId(fileId.replace(/-/g, '').substring(0, 24).padEnd(24, '0')):
\* <<the id>>, or <<>> when the constructor throws because the 24 characters
\* are not all hexadecimal digits
GridFsId(fileId) ==
    LET hex == StripDashes(fileId)
        cut == SubSeq(hex, 1, IF Len(hex) < ObjectIdLen THEN Len(hex) ELSE ObjectIdLen)
        id == PadEnd(cut, ObjectIdLen, "0")
    IN  IF IsObjectIdFormat(id) THEN <<id>> ELSE <<>>

\* error messages, as the fragments they are put together from
MsgBsonArgument == "Argument passed in must be a string of 12 bytes or a string of 24 hex characters or an integer"
MsgNotImplemented == "not implemented in this demo"
MsgDuplicateId == "E11000 duplicate key error"
\* the fragments that contain the text 'not found'
NotFoundFragments == {"File not found", "File not found for id ", " was not found"}
\* error.message.includes('not found')
IncludesNotFound(msg) == \E i \in DOMAIN msg : msg[i] \in NotFoundFragments

Failed(msg) == [ok |-> FALSE, msg |-> msg]

MimePdf == "application/pdf"
MimeOctetStream == "application/octet-stream"

\* GridFSStorageService.upload: the file is stored under the ObjectId made of fileId
GridFSUpload(bk, fileId, fileName, mimeType, content) ==
    LET id == GridFsId(fileId)[1] IN
    IF id \in DOMAIN bk
    THEN Failed(<<"Failed to upload file: ", MsgDuplicateId>>)
    ELSE [ok |-> TRUE,
          bucket |-> (id :> [fileId |-> fileId, filename |-> fileName,
                             contentType |-> mimeType, content |-> content])
                         @@ bk]

\* GridFSStorageService.download
GridFSDownload(bk, fileId) ==
    IF GridFsId(fileId) = <<>>
    THEN Failed(<<"Failed to download file from GridFS: ", MsgBsonArgument>>)
    ELSE IF GridFsId(fileId)[1] \notin DOMAIN bk
    THEN Failed(<<"Failed to download file: ", "FileNotFound: file ", " was not found">>)
    ELSE [ok |-> TRUE, v |-> bk[GridFsId(fileId)[1]].content]

\* a delete that succeeds whether or not the file exists
GridFSDeleteQuietly(bk, fileId) ==
    IF GridFsId(fileId) = <<>>
    THEN Failed(<<"Failed to delete file from GridFS: ", MsgBsonArgument>>)
    ELSE [ok |-> TRUE,
          bucket |-> [id \in DOMAIN bk \ {GridFsId(fileId)[1]} |-> bk[id]]]

\* GridFSStorageService.delete: bucket.delete(objectId)
GridFSDelete(bk, fileId) ==
    IF GridFsId(fileId) = <<>>
    THEN Failed(<<"Failed to delete file from GridFS: ", MsgBsonArgument>>)
    ELSE IF GridFsId(fileId)[1] \notin DOMAIN bk
    THEN Failed(<<"Failed to delete file from GridFS: ", "File not found for id ">>)
    ELSE [ok |-> TRUE,
          bucket |-> [id \in DOMAIN bk \ {GridFsId(fileId)[1]} |-> bk[id]]]

\* GridFSStorageService.getFileInfo: bucket.find({_id: objectId})
GridFSGetFileInfo(bk, fileId) ==
    IF GridFsId(fileId) = <<>>
    THEN Failed(<<"Failed to get file info from GridFS: ", MsgBsonArgument>>)
    ELSE IF GridFsId(fileId)[1] \notin DOMAIN bk
    THEN Failed(<<"Failed to get file info from GridFS: ", "File not found">>)
    ELSE [ok |-> TRUE,
          v |-> [fileId |-> bk[GridFsId(fileId)[1]].fileId,
                 fileName |-> bk[GridFsId(fileId)[1]].filename,
                 mimeType |-> IF bk[GridFsId(fileId)[1]].contentType = ""
                              THEN MimeOctetStream
                              ELSE bk[GridFsId(fileId)[1]].contentType]]

\* VercelBlobStorageService.upload: put(`${fileId}-${fileName}`, file)
VercelUpload(bl, fileId, fileName) ==
    [ok |-> TRUE, blobs |-> bl \cup {fileId \o <<"-">> \o fileName}]

\* VercelBlobStorageService.download, delete and getFileInfo
VercelDownload(fileId) ==
    Failed(<<"Failed to download file from Vercel Blob: ", "Download from Vercel Blob ",
             MsgNotImplemented>>)
VercelDelete(fileId) ==
    Failed(<<"Failed to delete file from Vercel Blob: ", "Delete from Vercel Blob ",
             MsgNotImplemented>>)
VercelGetFileInfo(fileId) ==
    Failed(<<"Get file info from Vercel Blob ", MsgNotImplemented>>)

\* getStorageService() and the call of the selected service
StorageDownload(prov, bk, fileId) ==
    IF prov = "vercel" THEN VercelDownload(fileId) ELSE GridFSDownload(bk, fileId)
StorageDelete(prov, bk, fileId) ==
    IF prov = "vercel" THEN VercelDelete(fileId) ELSE GridFSDelete(bk, fileId)
StorageGetFileInfo(prov, bk, fileId) ==
    IF prov = "vercel" THEN VercelGetFileInfo(fileId) ELSE GridFSGetFileInfo(bk, fileId)

(***************************************************************************)
(* Request slots: the handlers that run concurrently                       *)
(***************************************************************************)
Slots == {1, 2}
MaxRequests == 3
MaxClock == 2

NoReq == [op |-> "none"]
NoLoc == [at |-> "none"]
NoResp == [op |-> "none", status |-> 0, error |-> ""]

\* file storage before any upload, in a deployment that selects GridFS
FilesIdle ==
    /\ provider = "gridfs"
    /\ bucket = <<>>
    /\ blobs = {}
    /\ nextUuid = 0

fileVars == <<provider, bucket, blobs, nextUuid>>

\* mongoose.connection.readyState
Disconnected == 0
Connected == 1
Connecting == 2

\* the Database singleton and mongoose.connection: readyState and isConnected as
\* in the code; attempts and conns count the calls of mongoose.connect that are
\* in progress and the connections that are open; waited says that a connect()
\* call has put its resolve on the 'error' event, handlers that connect() has
\* registered its own 'error', 'disconnected' and 'reconnected' handlers

\* the Database singleton after a first connect() of the server succeeded
DbLive == [readyState |-> Connected, isConnected |-> TRUE, attempts |-> 0,
           conns |-> 1, waited |-> FALSE, handlers |-> TRUE]

\* the Database singleton as constructed: isConnected = false, nothing opened
DbFresh == [readyState |-> Disconnected, isConnected |-> FALSE, attempts |-> 0,
            conns |-> 0, waited |-> FALSE, handlers |-> FALSE]

\* the environment variables the AI services read
AllApiKeys == {"GEMINI_API_KEY", "GROQ_API_KEY"}

\* a deployment with both API keys set, after its first connect() succeeded
EnvIdle ==
    /\ apiKeys = AllApiKeys
    /\ db = DbLive

envVars == <<apiKeys, db>>

\* the server before any request: an empty collection
ServerIdle ==
    /\ store = <<>>
    /\ nextId = 0
    /\ clock = 1
    /\ pc = [p \in Slots |-> "idle"]
    /\ req = [p \in Slots |-> NoReq]
    /\ loc = [p \in Slots |-> NoLoc]
    /\ resp = [p \in Slots |-> NoResp]
    /\ nReq = 0
    /\ FilesIdle
    /\ EnvIdle

serverVars == <<store, nextId, clock, pc, req, loc, resp, nReq, fileVars, envVars>>
aiVars == <<aiIn, aiOut>>

\* the client's requests
F1 == <<"f", "1">>
F2 == <<"f", "2">>
F2Padded == <<" ", "f", "2", " ">>
FileA == <<"a", ".", "p", "d", "f">>
FileB == <<"b", ".", "p", "d", "f">>
Inv2 == <<"I", "N", "V", "-", "2">>
TaxNo == <<"D", "E", "1", "2", "3">>
NameX == <<"X">>
BadId == <<"a", "b", "c">>

GoodLineItem ==
    JObj((K_description :> JStr(Widget)) @@ (K_unitPrice :> JNum(5))
         @@ (K_quantity :> JNum(2)) @@ (K_total :> JNum(10)))
VendorFull ==
    JObj((K_name :> JStr(Acme)) @@ (K_address :> JStr(Street)) @@ (K_taxId :> JStr(TaxNo)))
VendorNameOnly == JObj(K_name :> JStr(NameX))
InvoiceFull ==
    JObj((K_number :> JStr(Inv1)) @@ (K_date :> JStr(DateYmd)) @@ (K_currency :> JStr(Eur))
         @@ (K_lineItems :> JArr(<<GoodLineItem>>)))
InvoiceMinimal == JObj((K_number :> JStr(Inv2)) @@ (K_date :> JStr(DateYmd)))

CreateBody(fileId) ==
    JObj((K_fileId :> JStr(fileId)) @@ (K_fileName :> JStr(FileA))
         @@ (K_vendor :> VendorFull) @@ (K_invoice :> InvoiceFull))

\* a create body and an update partial that carry timestamps of their own
F3 == <<"f", "3">>
FileC == <<"c", ".", "p", "d", "f">>
FileD == <<"d", ".", "p", "d", "f">>
CallerTime == <<"1", "9", "9", "9">>
StampedCreate ==
    JObj((K_createdAt :> JStr(CallerTime)) @@ (K_updatedAt :> JStr(CallerTime))
         @@ (K_fileName :> JStr(FileC)) @@ CreateBody(F3).o)
StampedUpdate ==
    JObj((K_createdAt :> JStr(CallerTime)) @@ (K_updatedAt :> JStr(CallerTime))
         @@ (K_fileName :> JStr(FileD)))

CreateBodies ==
    { CreateBody(F1), CreateBody(F2), StampedCreate,
      JObj((K_fileId :> JStr(F1)) @@ (K_fileName :> JStr(FileA))
           @@ (K_vendor :> JObj(K_address :> JStr(Street))) @@ (K_invoice :> InvoiceFull)) }

UpdatePartials ==
    { EmptyObj, StampedUpdate,
      JObj(K_vendor :> VendorNameOnly),
      JObj(K_invoice :> InvoiceMinimal),
      JObj(K_fileName :> JStr(FileB)),
      JObj(K_fileId :> JStr(F2Padded)),
      JObj((K_vendor :> VendorNameOnly) @@ (K_fileName :> JStr(FileB))),
      JObj(K_invoice :> JObj(K_number :> JStr(Inv2))) }

RequestIds == {ObjectId(1), ObjectId(2), BadId}

Requests ==
    {[op |-> "create", body |-> b] : b \in CreateBodies}
    \cup {[op |-> "update", id |-> i, body |-> b] : i \in RequestIds, b \in UpdatePartials}
    \cup {[op |-> "delete", id |-> i] : i \in RequestIds}

\* the response and the end of the handler
Finish(p, op, status, error) ==
    /\ pc' = [pc EXCEPT ![p] = "idle"]
    /\ req' = [req EXCEPT ![p] = NoReq]
    /\ loc' = [loc EXCEPT ![p] = NoLoc]
    /\ resp' = [resp EXCEPT ![p] = [op |-> op, status |-> status, error |-> error]]

\* a request arrives at an idle slot
Receive(p, r) ==
    /\ pc[p] = "idle"
    /\ nReq < MaxRequests
    /\ nReq' = nReq + 1
    /\ pc' = [pc EXCEPT ![p] = r.op]
    /\ req' = [req EXCEPT ![p] = r]
    /\ resp' = [resp EXCEPT ![p] = NoResp]
    /\ UNCHANGED <<store, nextId, clock, loc, aiVars, fileVars, envVars>>

ErrConflict == "Invoice with this file ID already exists"
ErrValidation == "Validation error"
ErrIdFormat == "Invalid invoice ID format"
ErrNotFound == "Invoice not found"

\* POST /invoices: validate(createInvoiceSchema), then Invoice.findOne({fileId})
CreateFindOne(p) ==
    /\ pc[p] = "create"
    /\ LET val == JoiValidate(createInvoiceSchema, req[p].body) IN
       IF ~val.ok THEN Finish(p, "create", 400, ErrValidation)
       ELSE IF FindByFileId(store, val.v.o[K_fileId].s) # {}
            THEN Finish(p, "create", 409, ErrConflict)
       ELSE /\ pc' = [pc EXCEPT ![p] = "create_new"]
            /\ loc' = [loc EXCEPT ![p] = [at |-> "new", invoiceData |-> val.v]]
            /\ UNCHANGED <<req, resp>>
    /\ UNCHANGED <<store, nextId, clock, nReq, aiVars, fileVars, envVars>>

\* POST /invoices: invoiceData.createdAt = now; new Invoice(invoiceData)
CreateNew(p) ==
    /\ pc[p] = "create_new"
    /\ LET data == JObj((K_createdAt :> IsoTime(clock)) @@ loc[p].invoiceData.o) IN
       loc' = [loc EXCEPT ![p] = [at |-> "save",
                                  invoice |-> NewInvoice(data, ObjectId(nextId + 1))]]
    /\ nextId' = nextId + 1
    /\ pc' = [pc EXCEPT ![p] = "create_save"]
    /\ UNCHANGED <<store, clock, req, resp, nReq, aiVars, fileVars, envVars>>

\* POST /invoices: invoice.save() and the response
CreateSave(p) ==
    /\ pc[p] = "create_save"
    /\ LET ins == InsertOne(store, PreSave(loc[p].invoice, TRUE, TRUE, clock)) IN
       /\ store' = ins.st
       /\ IF ins.r = "duplicate key" THEN Finish(p, "create", 409, ErrConflict)
          ELSE Finish(p, "create", 201, "")
    /\ UNCHANGED <<nextId, clock, nReq, aiVars, fileVars, envVars>>

\* PUT /invoices/:id: validate(updateInvoiceSchema), the id format check and
\* updateData.updatedAt = now
UpdateBegin(p) ==
    /\ pc[p] = "update"
    /\ LET val == JoiValidate(updateInvoiceSchema, req[p].body) IN
       IF ~val.ok THEN Finish(p, "update", 400, ErrValidation)
       ELSE IF ~IsObjectIdFormat(req[p].id) THEN Finish(p, "update", 400, ErrIdFormat)
       ELSE /\ pc' = [pc EXCEPT ![p] = "update_db"]
            /\ loc' = [loc EXCEPT ![p] =
                         [at |-> "db",
                          updateData |-> JObj((K_updatedAt :> IsoTime(clock)) @@ val.v.o)]]
            /\ UNCHANGED <<req, resp>>
    /\ UNCHANGED <<store, nextId, clock, nReq, aiVars, fileVars, envVars>>

\* PUT /invoices/:id: Invoice.findByIdAndUpdate(id, updateData, ...) and the response
UpdateDb(p) ==
    /\ pc[p] = "update_db"
    /\ LET upd == FindByIdAndUpdate(store, req[p].id, loc[p].updateData) IN
       /\ store' = upd.st
       /\ CASE upd.r = "null" -> Finish(p, "update", 404, ErrNotFound)
            [] upd.r = "duplicate key" -> Finish(p, "update", 409, ErrConflict)
            [] OTHER -> Finish(p, "update", 200, "")
    /\ UNCHANGED <<nextId, clock, nReq, aiVars, fileVars, envVars>>

\* a delete of an invoice that also deletes the file the invoice refers to
DeleteCascading(p) ==
    /\ pc[p] = "delete"
    /\ IF ~IsObjectIdFormat(req[p].id)
       THEN /\ Finish(p, "delete", 400, ErrIdFormat)
            /\ UNCHANGED <<store, bucket>>
       ELSE LET del == FindByIdAndDelete(store, req[p].id) IN
            /\ store' = del.st
            /\ IF del.r = "null"
               THEN Finish(p, "delete", 404, ErrNotFound) /\ bucket' = bucket
               ELSE /\ Finish(p, "delete", 200, "")
                    /\ bucket' = GridFSDeleteQuietly(bucket,
                                                     store[req[p].id].o[K_fileId].s).bucket
    /\ UNCHANGED <<nextId, clock, nReq, aiVars, provider, blobs, nextUuid, envVars>>

\* DELETE /invoices/:id: the id format check, Invoice.findByIdAndDelete(id)
DeleteById(p) ==
    /\ pc[p] = "delete"
    /\ IF ~IsObjectIdFormat(req[p].id)
       THEN /\ Finish(p, "delete", 400, ErrIdFormat)
            /\ UNCHANGED store
       ELSE LET del == FindByIdAndDelete(store, req[p].id) IN
            /\ store' = del.st
            /\ IF del.r = "null" THEN Finish(p, "delete", 404, ErrNotFound)
               ELSE Finish(p, "delete", 200, "")
    /\ UNCHANGED <<nextId, clock, nReq, aiVars, fileVars, envVars>>

\* the server clock advances by a millisecond
Tick ==
    /\ clock < MaxClock
    /\ clock' = clock + 1
    /\ UNCHANGED <<store, nextId, pc, req, loc, resp, nReq, aiVars, fileVars, envVars>>

Init ==
    /\ ServerIdle
    /\ aiIn = [text |-> <<>>, rnd |-> 0, today |-> [y |-> 2024, m |-> 1, d |-> 15]]
    /\ aiOut = <<>>

Next ==
    \/ \E p \in Slots, r \in Requests : Receive(p, r)
    \/ \E p \in Slots : CreateFindOne(p)
    \/ \E p \in Slots : CreateNew(p)
    \/ \E p \in Slots : CreateSave(p)
    \/ \E p \in Slots : UpdateBegin(p)
    \/ \E p \in Slots : UpdateDb(p)
    \/ \E p \in Slots : DeleteById(p)
    \/ Tick

Spec == Init /\ [][Next]_vars

\* requests handled one at a time: a request arrives only when no handler runs
ReceiveAlone(p, r) ==
    /\ \A q \in Slots : pc[q] = "idle"
    /\ Receive(p, r)

NextSeq ==
    \/ \E p \in Slots, r \in Requests : ReceiveAlone(p, r)
    \/ \E p \in Slots : CreateFindOne(p)
    \/ \E p \in Slots : CreateNew(p)
    \/ \E p \in Slots : CreateSave(p)
    \/ \E p \in Slots : UpdateBegin(p)
    \/ \E p \in Slots : UpdateDb(p)
    \/ \E p \in Slots : DeleteById(p)
    \/ Tick

SpecSeq == Init /\ [][NextSeq]_vars

(***************************************************************************)
(* GET, PUT and DELETE /invoices/:id with ids of every shape               *)
(***************************************************************************)
\* 24 characters, one of them not hexadecimal; 25 hexadecimal characters
NonHexId == [i \in 1..ObjectIdLen |-> IF i = 1 THEN "g" ELSE "1"]
LongId == [i \in 1..(ObjectIdLen + 1) |-> "1"]
PathIds == {ObjectId(1), ObjectId(2), BadId, NonHexId, LongId}

ByIdRequests ==
    {[op |-> "create", body |-> CreateBody(F1)]}
    \cup {[op |-> o, id |-> i] : o \in {"get", "delete"}, i \in PathIds}
    \cup {[op |-> "update", id |-> i, body |-> b]
            : i \in PathIds, b \in {JObj(K_vendor :> VendorNameOnly), JObj(K_vendor :> JObj(<<>>))}}

\* GET /invoices/:id: the id format check
GetBegin(p) ==
    /\ pc[p] = "get"
    /\ IF ~IsObjectIdFormat(req[p].id) THEN Finish(p, "get", 400, ErrIdFormat)
       ELSE /\ pc' = [pc EXCEPT ![p] = "get_db"]
            /\ UNCHANGED <<req, loc, resp>>
    /\ UNCHANGED <<store, nextId, clock, nReq, aiVars, fileVars, envVars>>

\* GET /invoices/:id: Invoice.findById(id).lean() and the response
GetFind(p) ==
    /\ pc[p] = "get_db"
    /\ IF req[p].id \notin DOMAIN store THEN Finish(p, "get", 404, ErrNotFound)
       ELSE /\ pc' = [pc EXCEPT ![p] = "idle"]
            /\ req' = [req EXCEPT ![p] = NoReq]
            /\ loc' = [loc EXCEPT ![p] = NoLoc]
            /\ resp' = [resp EXCEPT ![p] = [op |-> "get", status |-> 200, error |-> "",
                                            data |-> store[req[p].id]]]
    /\ UNCHANGED <<store, nextId, clock, nReq, aiVars, fileVars, envVars>>

NextById ==
    \/ \E p \in Slots, r \in ByIdRequests : Receive(p, r)
    \/ \E p \in Slots : GetBegin(p)
    \/ \E p \in Slots : GetFind(p)
    \/ \E p \in Slots : CreateFindOne(p)
    \/ \E p \in Slots : CreateNew(p)
    \/ \E p \in Slots : CreateSave(p)
    \/ \E p \in Slots : UpdateBegin(p)
    \/ \E p \in Slots : UpdateDb(p)
    \/ \E p \in Slots : DeleteById(p)
    \/ Tick

SpecById == Init /\ [][NextById]_vars

(***************************************************************************)
(* GET /invoices over a collection that no request changes                  *)
(***************************************************************************)
MaxQueryLen == 2
QueryAlphabet == {"a", "B", ".", "*", "("}
QueryStrings == UNION {[1..n -> QueryAlphabet] : n \in 1..MaxQueryLen}

ErrList == "Failed to retrieve invoices"

\* a document as POST /invoices stores it
StoredInvoice(n, name, number, at) ==
    LET body == JObj((K_fileId :> JStr(<<"f", Digit(n)>>)) @@ (K_fileName :> JStr(FileA))
                     @@ (K_vendor :> JObj(K_name :> JStr(name)))
                     @@ (K_invoice :> JObj((K_number :> JStr(number))
                                           @@ (K_date :> JStr(DateYmd)))))
        data == JObj((K_createdAt :> IsoTime(at))
                     @@ JoiValidate(createInvoiceSchema, body).v.o)
    IN  PreSave(NewInvoice(data, ObjectId(n)), TRUE, TRUE, at)

SampleInvoices ==
    << StoredInvoice(1, <<"A", "b">>, <<"N", "1">>, 1),
       StoredInvoice(2, <<"a", ".", "b">>, <<"N", "2">>, 1),
       StoredInvoice(3, <<"a", "*">>, <<"(", "B">>, 2),
       StoredInvoice(4, <<"x", "y">>, <<"b", "a">>, 2) >>

StoreOf(S) ==
    [id \in {ObjectId(n) : n \in S} |->
        SampleInvoices[CHOOSE n \in S : ObjectId(n) = id]]

\* one parameter of the query string, or none
Param(k, opt) == IF opt = <<>> THEN <<>> ELSE k :> JStr(opt[1])

ListRequests ==
    { [op |-> "list",
       query |-> JObj(Param(K_q, q) @@ Param(K_page, pg) @@ Param(K_limit, lm))]
      : q \in {<<>>} \cup {<<s>> : s \in QueryStrings},
        pg \in {<<>>, <<Decimal(2)>>, <<Decimal(3)>>},
        lm \in {<<>>, <<Decimal(1)>>, <<Decimal(2)>>, <<Decimal(LimitMax)>>,
                <<Decimal(LimitMax + 1)>>} }
    \cup
    { [op |-> "list",
       query |-> JObj(Param(K_q, q) @@ Param(K_page, pg)
                      @@ (K_limit :> JStr(Decimal(2)))
                      @@ (K_sortBy :> JStr(S_vendorName)) @@ (K_sortOrder :> JStr(S_asc)))]
      : q \in {<<>>} \cup {<<s>> : s \in QueryStrings},
        pg \in {<<>>, <<Decimal(2)>>, <<Decimal(3)>>} }

\* GET /invoices: validate(searchQuerySchema, 'query'), skip, the filter and the
\* sort; both queries are issued
ListBegin(p) ==
    /\ pc[p] = "list"
    /\ LET val == JoiValidate(searchQuerySchema, req[p].query) IN
       IF ~val.ok
       THEN Finish(p, "list", 400, ErrValidation)
       ELSE LET page == val.v.o[K_page].n
                limit == val.v.o[K_limit].n
                q == IF K_q \in DOMAIN val.v.o /\ val.v.o[K_q].s # <<>>
                        /\ TrimSpaces(val.v.o[K_q].s) # <<>>
                     THEN <<TrimSpaces(val.v.o[K_q].s)>> ELSE <<>>
            IN  /\ pc' = [pc EXCEPT ![p] = "list_queries"]
                /\ loc' = [loc EXCEPT ![p] =
                             [at |-> "queries",
                              page |-> page, limit |-> limit,
                              skip |-> SkipOf(page, limit),
                              filter |-> [q |-> q],
                              sortField |-> val.v.o[K_sortBy].s,
                              dir |-> IF val.v.o[K_sortOrder].s = S_desc THEN -1 ELSE 1,
                              invoices |-> <<>>, total |-> <<>>]]
                /\ UNCHANGED <<req, resp>>
    /\ UNCHANGED <<store, nextId, clock, nReq, aiVars, fileVars, envVars>>

\* GET /invoices: Invoice.find(query).sort(sort).skip(skip).limit(limit).lean()
\* settles; a rejected query ends the handler in its catch
ListFind(p) ==
    /\ pc[p] = "list_queries"
    /\ loc[p].invoices = <<>>
    /\ IF ~FilterValid(loc[p].filter)
       THEN Finish(p, "list", 500, ErrList)
       ELSE \E s \in FindSorted(store, loc[p].filter, loc[p].sortField, loc[p].dir) :
               /\ loc' = [loc EXCEPT ![p].invoices =
                            <<[i \in DOMAIN SkipLimit(s, loc[p].skip, loc[p].limit)
                                 |-> store[SkipLimit(s, loc[p].skip, loc[p].limit)[i]]]>>]
               /\ UNCHANGED <<pc, req, resp>>
    /\ UNCHANGED <<store, nextId, clock, nReq, aiVars, fileVars, envVars>>

\* GET /invoices: Invoice.countDocuments(query) settles
ListCount(p) ==
    /\ pc[p] = "list_queries"
    /\ loc[p].total = <<>>
    /\ IF ~FilterValid(loc[p].filter)
       THEN Finish(p, "list", 500, ErrList)
       ELSE /\ loc' = [loc EXCEPT ![p].total = <<CountDocuments(store, loc[p].filter)>>]
            /\ UNCHANGED <<pc, req, resp>>
    /\ UNCHANGED <<store, nextId, clock, nReq, aiVars, fileVars, envVars>>

\* GET /invoices: both results are in; the response with its pagination
ListRespond(p) ==
    /\ pc[p] = "list_queries"
    /\ loc[p].invoices # <<>>
    /\ loc[p].total # <<>>
    /\ pc' = [pc EXCEPT ![p] = "idle"]
    /\ req' = [req EXCEPT ![p] = NoReq]
    /\ loc' = [loc EXCEPT ![p] = NoLoc]
    /\ resp' = [resp EXCEPT ![p] =
                  [op |-> "list", status |-> 200, error |-> "",
                   data |-> loc[p].invoices[1],
                   pagination |-> [page |-> IF loc[p].page = 0 THEN 1 ELSE loc[p].page,
                                   limit |-> IF loc[p].limit = 0 THEN DefaultLimit
                                             ELSE loc[p].limit,
                                   total |-> loc[p].total[1],
                                   pages |-> CeilDiv(loc[p].total[1],
                                                     IF loc[p].limit = 0 THEN DefaultLimit
                                                     ELSE loc[p].limit)]]]
    /\ UNCHANGED <<store, nextId, clock, nReq, aiVars, fileVars, envVars>>

\* a collection of stored invoices and no request yet
InitSearch ==
    /\ \E S \in SUBSET (DOMAIN SampleInvoices) : store = StoreOf(S)
    /\ nextId = Len(SampleInvoices)
    /\ clock = MaxClock
    /\ pc = [p \in Slots |-> "idle"]
    /\ req = [p \in Slots |-> NoReq]
    /\ loc = [p \in Slots |-> NoLoc]
    /\ resp = [p \in Slots |-> NoResp]
    /\ nReq = 0
    /\ FilesIdle
    /\ EnvIdle
    /\ aiIn = [text |-> <<>>, rnd |-> 0, today |-> [y |-> 2024, m |-> 1, d |-> 15]]
    /\ aiOut = <<>>

\* the one request of a behaviour of the search specification
ReceiveFirst(p, r) ==
    /\ nReq = 0
    /\ Receive(p, r)

NextSearch ==
    \/ \E p \in Slots, r \in ListRequests : ReceiveFirst(p, r)
    \/ \E p \in Slots : ListBegin(p)
    \/ \E p \in Slots : ListFind(p)
    \/ \E p \in Slots : ListCount(p)
    \/ \E p \in Slots : ListRespond(p)

SpecSearch == InitSearch /\ [][NextSearch]_vars

(***************************************************************************)
(* The upload routes and POST /extract                                     *)
(***************************************************************************)
K_model == <<"m", "o", "d", "e", "l">>
S_gemini == <<"g", "e", "m", "i", "n", "i">>
S_groq == <<"g", "r", "o", "q">>

extractRequestSchema ==
    JoiObject((K_fileId :> JoiString(TRUE, <<>>))
              @@ (K_model :> [JoiOneOf({S_gemini, S_groq}) EXCEPT !.required = TRUE]), FALSE)

\* a file id that has the first 24 hexadecimal digits of the first UUID
SharesPrefix == [i \in 1..36 |-> IF i > 28 THEN "a" ELSE Uuid(1)[i]]
ShortHex == <<"1", "1", "1", "1">>
NoSuchFile == <<"n", "o", "f", "i", "l", "e">>
RequestFileIds == {Uuid(1), Uuid(2), SharesPrefix, ShortHex, NoSuchFile}

\* what the model may answer: nothing, prose, a document cut short, a document
GoodDoc ==
    JObj((K_vendor :> JObj(K_name :> JStr(Acme)))
         @@ (K_invoice :> JObj((K_number :> JStr(Inv1)) @@ (K_date :> JStr(DateYmd))
                               @@ (K_lineItems :> JArr(<<OddLineItem>>)))))
EmptyText == <<>>
ProseText == <<TWord("I could not find an invoice in this document")>>
PartialText == SubSeq(ModelText(GoodDoc), 1, Len(ModelText(GoodDoc)) - 1)
GoodText == <<TFenceJson, TNl>> \o ModelText(GoodDoc) \o <<TNl, TFence>>
ModelReplies ==
    {[ok |-> FALSE, text |-> <<>>]}
    \cup {[ok |-> TRUE, text |-> t] : t \in {EmptyText, ProseText, PartialText, GoodText}}

Today == [y |-> 2024, m |-> 1, d |-> 15]

FileRequests ==
    {[op |-> "upload", fileName |-> FileA, mimeType |-> MimePdf, content |-> [pdf |-> b]]
       : b \in BOOLEAN}
    \cup {[op |-> o, fileId |-> f] : o \in {"file_info", "file_download", "file_delete"},
                                     f \in RequestFileIds}
    \cup {[op |-> "extract",
           body |-> JObj((K_fileId :> JStr(f)) @@ (K_model :> JStr(m)))]
             : f \in {Uuid(1), SharesPrefix, NoSuchFile}, m \in {S_gemini, S_groq}}
    \cup {[op |-> "extract", body |-> JObj(K_fileId :> JStr(Uuid(1)))],
          [op |-> "create", body |-> CreateBody(Uuid(1))],
          [op |-> "delete", id |-> ObjectId(1)]}

ErrFileNotFound == "File not found"
ErrFileInfo == "Failed to get file information"
ErrDownload == "Failed to download file"
ErrFileDelete == "Failed to delete file"
ErrUpload == "Failed to upload file"
ErrExtraction == "AI extraction failed"
ErrNoGroqResponse == "Groq AI extraction failed: No response received from Groq"

\* the catch of an upload route: 404 when the message includes 'not found'
FileError(p, op, msg, error) ==
    IF IncludesNotFound(msg) THEN Finish(p, op, 404, ErrFileNotFound)
    ELSE Finish(p, op, 500, error)

\* POST /upload: storageService.upload(file.buffer, file.originalname, file.mimetype)
UploadFile(p) ==
    /\ pc[p] = "upload"
    /\ nextUuid' = nextUuid + 1
    /\ IF provider = "vercel"
       THEN /\ blobs' = VercelUpload(blobs, Uuid(nextUuid + 1), req[p].fileName).blobs
            /\ bucket' = bucket
            /\ Finish(p, "upload", 201, "")
       ELSE LET up == GridFSUpload(bucket, Uuid(nextUuid + 1), req[p].fileName,
                                   req[p].mimeType,
                                   req[p].content) IN
            /\ blobs' = blobs
            /\ IF up.ok THEN bucket' = up.bucket /\ Finish(p, "upload", 201, "")
               ELSE bucket' = bucket /\ Finish(p, "upload", 500, ErrUpload)
    /\ UNCHANGED <<provider, store, nextId, clock, nReq, aiVars, envVars>>

\* GET /upload/:fileId: storageService.getFileInfo(fileId)
FileInfo(p) ==
    /\ pc[p] = "file_info"
    /\ LET info == StorageGetFileInfo(provider, bucket, req[p].fileId) IN
       IF info.ok THEN Finish(p, "file_info", 200, "")
       ELSE FileError(p, "file_info", info.msg, ErrFileInfo)
    /\ UNCHANGED <<store, nextId, clock, nReq, aiVars, fileVars, envVars>>

\* GET /upload/:fileId/download: storageService.getFileInfo(fileId)
FileDownloadInfo(p) ==
    /\ pc[p] = "file_download"
    /\ LET info == StorageGetFileInfo(provider, bucket, req[p].fileId) IN
       IF info.ok
       THEN /\ pc' = [pc EXCEPT ![p] = "file_download_body"]
            /\ loc' = [loc EXCEPT ![p] = [at |-> "download", fileInfo |-> info.v]]
            /\ UNCHANGED <<req, resp>>
       ELSE FileError(p, "file_download", info.msg, ErrDownload)
    /\ UNCHANGED <<store, nextId, clock, nReq, aiVars, fileVars, envVars>>

\* GET /upload/:fileId/download: storageService.download(fileId) and the response
FileDownloadBody(p) ==
    /\ pc[p] = "file_download_body"
    /\ LET file == StorageDownload(provider, bucket, req[p].fileId) IN
       IF file.ok THEN Finish(p, "file_download", 200, "")
       ELSE FileError(p, "file_download", file.msg, ErrDownload)
    /\ UNCHANGED <<store, nextId, clock, nReq, aiVars, fileVars, envVars>>

\* DELETE /upload/:fileId: storageService.delete(fileId)
FileDelete(p) ==
    /\ pc[p] = "file_delete"
    /\ LET del == StorageDelete(provider, bucket, req[p].fileId) IN
       IF del.ok THEN bucket' = del.bucket /\ Finish(p, "file_delete", 200, "")
       ELSE bucket' = bucket /\ FileError(p, "file_delete", del.msg, ErrFileDelete)
    /\ UNCHANGED <<store, nextId, clock, nReq, aiVars, provider, blobs, nextUuid, envVars>>

\* the constructors of GeminiAIService and GroqAIService: the key each reads from
\* process.env, and the error each throws when it is not set
ApiKeyOf(model) == IF model = S_groq THEN "GROQ_API_KEY" ELSE "GEMINI_API_KEY"
ErrNoApiKey(model) ==
    IF model = S_groq THEN "GROQ_API_KEY environment variable is not set"
    ELSE "GEMINI_API_KEY environment variable is not set"

\* an extraction that constructs its AI service without looking for the key
ExtractBeginNoKeyCheck(p) ==
    /\ pc[p] = "extract"
    /\ LET val == JoiValidate(extractRequestSchema, req[p].body) IN
       IF ~val.ok THEN Finish(p, "extract", 400, ErrValidation)
       ELSE /\ pc' = [pc EXCEPT ![p] = "extract_pdf"]
            /\ loc' = [loc EXCEPT ![p] = [at |-> "pdf", fileId |-> val.v.o[K_fileId].s,
                                          model |-> val.v.o[K_model].s]]
            /\ UNCHANGED <<req, resp>>
    /\ UNCHANGED <<store, nextId, clock, nReq, aiVars, fileVars, envVars>>

\* POST /extract: validate(extractRequestSchema), then getAIService(model), whose
\* constructor throws when the key is not set; the catch of the route answers 500
\* with the message of the error
ExtractBegin(p) ==
    /\ pc[p] = "extract"
    /\ LET val == JoiValidate(extractRequestSchema, req[p].body) IN
       IF ~val.ok THEN Finish(p, "extract", 400, ErrValidation)
       ELSE IF ApiKeyOf(val.v.o[K_model].s) \notin apiKeys
       THEN Finish(p, "extract", 500, ErrNoApiKey(val.v.o[K_model].s))
       ELSE /\ pc' = [pc EXCEPT ![p] = "extract_pdf"]
            /\ loc' = [loc EXCEPT ![p] = [at |-> "pdf", fileId |-> val.v.o[K_fileId].s,
                                          model |-> val.v.o[K_model].s]]
            /\ UNCHANGED <<req, resp>>
    /\ UNCHANGED <<store, nextId, clock, nReq, aiVars, fileVars, envVars>>

\* extractTextFromPDF: storageService.download(fileId), then pdfParse(pdfBuffer);
\* either may throw, which extractInvoiceData rethrows and the route answers 500
ExtractTextFromPDF(p) ==
    /\ pc[p] = "extract_pdf"
    /\ LET file == StorageDownload(provider, bucket, loc[p].fileId) IN
       IF ~file.ok \/ ~file.v.pdf THEN Finish(p, "extract", 500, ErrExtraction)
       ELSE /\ pc' = [pc EXCEPT ![p] = "extract_model"]
            /\ UNCHANGED <<req, loc, resp>>
    /\ UNCHANGED <<store, nextId, clock, nReq, aiVars, fileVars, envVars>>

\* extractInvoiceData: the call of the model, which fails or returns its text
ExtractModelCall(p) ==
    /\ pc[p] = "extract_model"
    /\ \E reply \in ModelReplies :
          IF ~reply.ok THEN Finish(p, "extract", 500, ErrExtraction)
          ELSE /\ pc' = [pc EXCEPT ![p] = "extract_parse"]
               /\ loc' = [loc EXCEPT ![p] = [at |-> "parse", model |-> loc[p].model,
                                             extractedText |-> reply.text]]
               /\ UNCHANGED <<req, resp>>
    /\ UNCHANGED <<store, nextId, clock, nReq, aiVars, fileVars, envVars>>

\* an extraction that saves what it extracted as an invoice
ExtractAndSave(p) ==
    /\ pc[p] = "extract_parse"
    /\ store' = (ObjectId(nextId + 1) :> JObj(K_fileId :> JStr(F1))) @@ store
    /\ nextId' = nextId + 1
    /\ Finish(p, "extract", 200, "")
    /\ UNCHANGED <<clock, nReq, aiVars, fileVars, envVars>>

\* extractInvoiceData: Groq's check of the text, parseAIResponse(extractedText),
\* and the response of the route with the extracted data
ExtractParse(p) ==
    /\ pc[p] = "extract_parse"
    /\ IF loc[p].model = S_groq /\ loc[p].extractedText = <<>>
       THEN Finish(p, "extract", 500, ErrNoGroqResponse)
       ELSE \E rnd \in RandomDraws :
               LET c == IF loc[p].model = S_groq
                        THEN GroqParseAIResponse(loc[p].extractedText, rnd, Today)
                        ELSE GeminiParseAIResponse(loc[p].extractedText, rnd, Today)
               IN  IF c.threw THEN Finish(p, "extract", 500, ErrExtraction)
                   ELSE /\ pc' = [pc EXCEPT ![p] = "idle"]
                        /\ req' = [req EXCEPT ![p] = NoReq]
                        /\ loc' = [loc EXCEPT ![p] = NoLoc]
                        /\ resp' = [resp EXCEPT ![p] =
                                      [op |-> "extract", status |-> 200, error |-> "",
                                       extractedData |-> c.v]]
    /\ UNCHANGED <<store, nextId, clock, nReq, aiVars, fileVars, envVars>>

\* no request yet, nothing stored, either storage service selected
InitFiles ==
    /\ store = <<>>
    /\ nextId = 0
    /\ clock = 1
    /\ pc = [p \in Slots |-> "idle"]
    /\ req = [p \in Slots |-> NoReq]
    /\ loc = [p \in Slots |-> NoLoc]
    /\ resp = [p \in Slots |-> NoResp]
    /\ nReq = 0
    /\ provider \in {"gridfs", "vercel"}
    /\ bucket = <<>>
    /\ blobs = {}
    /\ nextUuid = 0
    /\ EnvIdle
    /\ aiIn = [text |-> <<>>, rnd |-> 0, today |-> Today]
    /\ aiOut = <<>>

NextFiles ==
    \/ \E p \in Slots, r \in FileRequests : Receive(p, r)
    \/ \E p \in Slots : UploadFile(p)
    \/ \E p \in Slots : FileInfo(p)
    \/ \E p \in Slots : FileDownloadInfo(p)
    \/ \E p \in Slots : FileDownloadBody(p)
    \/ \E p \in Slots : FileDelete(p)
    \/ \E p \in Slots : ExtractBegin(p)
    \/ \E p \in Slots : ExtractTextFromPDF(p)
    \/ \E p \in Slots : ExtractModelCall(p)
    \/ \E p \in Slots : ExtractParse(p)
    \/ \E p \in Slots : CreateFindOne(p)
    \/ \E p \in Slots : CreateNew(p)
    \/ \E p \in Slots : CreateSave(p)
    \/ \E p \in Slots : DeleteById(p)

SpecFiles == InitFiles /\ [][NextFiles]_vars

(***************************************************************************)
(* POST /extract in deployments that set both, one or none of the API keys *)
(***************************************************************************)
KeysRequests ==
    {[op |-> "upload", fileName |-> FileA, mimeType |-> MimePdf, content |-> [pdf |-> TRUE]]}
    \cup {[op |-> "extract",
           body |-> JObj((K_fileId :> JStr(f)) @@ (K_model :> JStr(m)))]
             : f \in {Uuid(1), NoSuchFile}, m \in {S_gemini, S_groq}}
    \cup {[op |-> "extract", body |-> JObj(K_fileId :> JStr(Uuid(1)))]}

InitKeys ==
    /\ store = <<>>
    /\ nextId = 0
    /\ clock = 1
    /\ pc = [p \in Slots |-> "idle"]
    /\ req = [p \in Slots |-> NoReq]
    /\ loc = [p \in Slots |-> NoLoc]
    /\ resp = [p \in Slots |-> NoResp]
    /\ nReq = 0
    /\ FilesIdle
    /\ apiKeys \in SUBSET AllApiKeys
    /\ db = DbLive
    /\ aiIn = [text |-> <<>>, rnd |-> 0, today |-> Today]
    /\ aiOut = <<>>

NextKeys ==
    \/ \E p \in Slots, r \in KeysRequests : Receive(p, r)
    \/ \E p \in Slots : UploadFile(p)
    \/ \E p \in Slots : ExtractBegin(p)
    \/ \E p \in Slots : ExtractTextFromPDF(p)
    \/ \E p \in Slots : ExtractModelCall(p)
    \/ \E p \in Slots : ExtractParse(p)

SpecKeys == InitKeys /\ [][NextKeys]_vars

(***************************************************************************)
(* config/database and the database middleware of the /api routes          *)
(***************************************************************************)
ApiRoutes == {"/api/auth", "/api/upload", "/api/extract", "/api/invoices"}
DbRequests == {[op |-> "api", route |-> r] : r \in ApiRoutes} \cup {[op |-> "health"]}

ErrDbFailed == "Database connection failed. Please try again."
\* the error of a query issued while the connection is not open
ErrNotConnected == "MongooseError"

\* Database.isConnectedToDatabase
IsConnectedToDatabase(d) == d.isConnected /\ d.readyState = Connected

\* a connect() that calls mongoose.connect whatever the state of the connection
ConnectAlwaysOpens(readyState) == "open"

\* Database.connect, the branch it takes: return at once when connected, wait
\* for 'connected' or 'error' when connecting, call mongoose.connect otherwise
ConnectBranch(readyState) ==
    IF readyState = Connected THEN "done"
    ELSE IF readyState = Connecting THEN "wait"
    ELSE "open"

\* where a request stands once its connect() has returned (ok) or thrown:
\* databaseMiddleware calls next() or answers 503; GET /health answers either way
PcAfterConnect(q, ok) == IF req[q].op = "api" /\ ok THEN "handler" ELSE "idle"
RespAfterConnect(q, ok) ==
    IF req[q].op = "health" THEN [op |-> "health", status |-> 200, error |-> ""]
    ELSE IF ok THEN resp[q]
    ELSE [op |-> "api", status |-> 503, error |-> ErrDbFailed]

\* the requests of set S go on after their connect() returned, the request
\* failed (if any) after its connect() threw, the requests of set W are woken
AfterConnect(S, failed, W) ==
    /\ pc' = [q \in Slots |-> IF q \in S THEN PcAfterConnect(q, TRUE)
                               ELSE IF q \in failed THEN PcAfterConnect(q, FALSE)
                               ELSE IF q \in W THEN "db_resumed"
                               ELSE pc[q]]
    /\ resp' = [q \in Slots |-> IF q \in S THEN RespAfterConnect(q, TRUE)
                                 ELSE IF q \in failed THEN RespAfterConnect(q, FALSE)
                                 ELSE resp[q]]
    /\ req' = [q \in Slots |-> IF pc'[q] = "idle" THEN NoReq ELSE req[q]]
    /\ loc' = loc

Waiting == {q \in Slots : pc[q] = "db_waiting"}

\* databaseMiddleware, and GET /health, up to the first await of connect():
\* isConnectedToDatabase(), ensureDatabaseConnection(), the branch of connect()
DatabaseMiddleware(p) ==
    /\ pc[p] \in {"api", "health"}
    /\ IF IsConnectedToDatabase(db)
       THEN db' = db /\ AfterConnect({p}, {}, {})
       ELSE LET branch == ConnectBranch(db.readyState) IN
            IF branch = "done"
            THEN /\ db' = [db EXCEPT !.isConnected = TRUE]
                 /\ AfterConnect({p}, {}, {})
            ELSE IF branch = "wait"
            THEN /\ db' = [db EXCEPT !.waited = TRUE]
                 /\ pc' = [pc EXCEPT ![p] = "db_waiting"]
                 /\ UNCHANGED <<req, loc, resp>>
            ELSE /\ db' = [db EXCEPT !.readyState = Connecting, !.attempts = @ + 1]
                 /\ pc' = [pc EXCEPT ![p] = "db_opening"]
                 /\ UNCHANGED <<req, loc, resp>>
    /\ UNCHANGED <<store, nextId, clock, nReq, aiVars, fileVars, apiKeys>>

\* mongoose.connect of request p resolves: readyState is connected, 'connected'
\* wakes the connect() calls that wait, which set isConnected to
\* isConnectedToDatabase() and return; connect() of p sets isConnected and
\* registers its handlers unless an 'error' listener exists
ConnectResolves(p) ==
    /\ pc[p] = "db_opening"
    /\ db' = [db EXCEPT !.readyState = Connected, !.attempts = @ - 1, !.conns = @ + 1,
                        !.isConnected = TRUE,
                        !.handlers = @ \/ ~db.waited]
    /\ AfterConnect({p} \cup Waiting, {}, {})
    /\ UNCHANGED <<store, nextId, clock, nReq, aiVars, fileVars, apiKeys>>

\* mongoose.connect of request p rejects: readyState is disconnected, the catch of
\* connect() clears isConnected and rethrows; 'error' is emitted afterwards to the
\* listeners there are, which wakes the connect() calls that wait
ConnectRejects(p) ==
    /\ pc[p] = "db_opening"
    /\ db' = [db EXCEPT !.readyState = IF db.conns > 0 THEN Connected
                                       ELSE IF db.attempts > 1 THEN Connecting
                                       ELSE Disconnected,
                        !.attempts = @ - 1, !.isConnected = FALSE]
    /\ AfterConnect({}, {p}, Waiting)
    /\ UNCHANGED <<store, nextId, clock, nReq, aiVars, fileVars, apiKeys>>

\* a connect() call woken by 'error': isConnected = isConnectedToDatabase(), and
\* it returns without throwing
ConnectWakes(p) ==
    /\ pc[p] = "db_resumed"
    /\ db' = [db EXCEPT !.isConnected = IsConnectedToDatabase(db)]
    /\ AfterConnect({p}, {}, {})
    /\ UNCHANGED <<store, nextId, clock, nReq, aiVars, fileVars, apiKeys>>

\* the route handler that next() runs; with bufferCommands false its queries
\* throw while the connection is not open
RouteHandler(p) ==
    /\ pc[p] = "handler"
    /\ IF db.readyState = Connected THEN Finish(p, "api", 200, "")
       ELSE Finish(p, "api", 500, ErrNotConnected)
    /\ UNCHANGED <<store, nextId, clock, nReq, aiVars, fileVars, envVars>>

\* the connection is lost: 'disconnected' runs the handler connect() registered
ConnectionLost ==
    /\ db.readyState = Connected
    /\ db.attempts = 0
    /\ db' = [db EXCEPT !.readyState = Disconnected, !.conns = 0,
                        !.isConnected = IF db.handlers THEN FALSE ELSE @]
    /\ UNCHANGED <<store, nextId, clock, pc, req, loc, resp, nReq, aiVars, fileVars,
                   apiKeys>>

\* a serverless instance before its first request: nothing connected yet
InitDb ==
    /\ store = <<>>
    /\ nextId = 0
    /\ clock = 1
    /\ pc = [p \in Slots |-> "idle"]
    /\ req = [p \in Slots |-> NoReq]
    /\ loc = [p \in Slots |-> NoLoc]
    /\ resp = [p \in Slots |-> NoResp]
    /\ nReq = 0
    /\ FilesIdle
    /\ apiKeys = AllApiKeys
    /\ db = DbFresh
    /\ aiIn = [text |-> <<>>, rnd |-> 0, today |-> Today]
    /\ aiOut = <<>>

NextDb ==
    \/ \E p \in Slots, r \in DbRequests : Receive(p, r)
    \/ \E p \in Slots : DatabaseMiddleware(p)
    \/ \E p \in Slots : ConnectResolves(p)
    \/ \E p \in Slots : ConnectRejects(p)
    \/ \E p \in Slots : ConnectWakes(p)
    \/ \E p \in Slots : RouteHandler(p)
    \/ ConnectionLost

SpecDb == InitDb /\ [][NextDb]_vars

(***************************************************************************)
(* GET /invoices while other requests create and delete invoices           *)
(***************************************************************************)
DriftRequests ==
    {[op |-> "list", query |-> JObj(q)]
        : q \in {<<>>, K_q :> JStr(<<"a">>), K_limit :> JStr(Decimal(1))}}
    \cup {[op |-> "create", body |-> CreateBody(F3)]}
    \cup {[op |-> "delete", id |-> i] : i \in {ObjectId(1), ObjectId(2)}}

\* two stored invoices, both matching the query of the requests
InitDrift == InitSearch /\ store = StoreOf({1, 2})

NextDrift ==
    \/ \E p \in Slots, r \in DriftRequests : Receive(p, r)
    \/ \E p \in Slots : ListBegin(p)
    \/ \E p \in Slots : ListFind(p)
    \/ \E p \in Slots : ListCount(p)
    \/ \E p \in Slots : ListRespond(p)
    \/ \E p \in Slots : CreateFindOne(p)
    \/ \E p \in Slots : CreateNew(p)
    \/ \E p \in Slots : CreateSave(p)
    \/ \E p \in Slots : DeleteById(p)

SpecDrift == InitDrift /\ [][NextDrift]_vars

(***************************************************************************)
(* Two PUT /invoices/:id requests for one invoice, in flight together      *)
(***************************************************************************)
\* the invoice both requests are for, as POST /invoices stored it
RaceInvoice ==
    PreSave(NewInvoice(JObj((K_createdAt :> IsoTime(1))
                            @@ JoiValidate(createInvoiceSchema, CreateBody(F1)).v.o),
                       ObjectId(1)), TRUE, TRUE, 1)

RacePartials ==
    {JObj(K_vendor :> VendorNameOnly),
     JObj(K_invoice :> InvoiceMinimal),
     JObj(K_fileName :> JStr(FileB)),
     JObj((K_vendor :> VendorFull) @@ (K_invoice :> InvoiceMinimal))}

RaceRequests == {[op |-> "update", id |-> ObjectId(1), body |-> b] : b \in RacePartials}

\* both requests have arrived and neither handler has run
InitRace ==
    /\ store = (ObjectId(1) :> RaceInvoice)
    /\ nextId = 1
    /\ clock = 1
    /\ req \in [Slots -> RaceRequests]
    /\ pc = [p \in Slots |-> "update"]
    /\ loc = [p \in Slots |-> NoLoc]
    /\ resp = [p \in Slots |-> NoResp]
    /\ nReq = Cardinality(Slots)
    /\ FilesIdle
    /\ EnvIdle
    /\ aiIn = [text |-> <<>>, rnd |-> 0, today |-> [y |-> 2024, m |-> 1, d |-> 15]]
    /\ aiOut = <<>>

NextRace ==
    \/ \E p \in Slots : UpdateBegin(p)
    \/ \E p \in Slots : UpdateDb(p)
    \/ Tick

SpecRace == InitRace /\ [][NextRace]_vars

(***************************************************************************)
(* POST /invoices and PUT /invoices/:id with bodies that break the schemas *)
(***************************************************************************)
NegativePriceItem ==
    JObj((K_description :> JStr(Widget)) @@ (K_unitPrice :> JNum(-5))
         @@ (K_quantity :> JNum(2)) @@ (K_total :> JNum(10)))
VendorNoName == JObj(K_address :> JStr(Street))
InvoiceNegativePrice ==
    JObj((K_number :> JStr(Inv1)) @@ (K_date :> JStr(DateYmd))
         @@ (K_lineItems :> JArr(<<GoodLineItem, NegativePriceItem>>)))
InvoiceTax(n) ==
    JObj((K_number :> JStr(Inv1)) @@ (K_date :> JStr(DateYmd)) @@ (K_taxPercent :> JNum(n)))

ShapeVendors == {VendorFull, VendorNoName}
ShapeInvoices ==
    {InvoiceFull, InvoiceNegativePrice, InvoiceTax(TaxPercentMax), InvoiceTax(TaxPercentMax + 1)}

ShapeRequests ==
    {[op |-> "create",
      body |-> JObj((K_fileId :> JStr(F1)) @@ (K_fileName :> JStr(FileA))
                    @@ (K_vendor :> v) @@ (K_invoice :> i))]
        : v \in ShapeVendors, i \in ShapeInvoices}
    \cup {[op |-> "update", id |-> ObjectId(1), body |-> JObj(K_vendor :> v)]
            : v \in ShapeVendors}
    \cup {[op |-> "update", id |-> ObjectId(1), body |-> JObj(K_invoice :> i)]
            : i \in ShapeInvoices}
    \cup {[op |-> "update", id |-> ObjectId(1),
           body |-> JObj((K_fileName :> JStr(FileB)) @@ (K_vendor :> VendorNoName))]}

NextShape ==
    \/ \E p \in Slots, r \in ShapeRequests : Receive(p, r)
    \/ \E p \in Slots : CreateFindOne(p)
    \/ \E p \in Slots : CreateNew(p)
    \/ \E p \in Slots : CreateSave(p)
    \/ \E p \in Slots : UpdateBegin(p)
    \/ \E p \in Slots : UpdateDb(p)

SpecShape == Init /\ [][NextShape]_vars

(***************************************************************************)
(* GET /invoices with page and limit at and beyond their bounds            *)
(***************************************************************************)
MinusOne == <<"-", "1">>
OneAndAHalf == <<"1", ".", "5">>
PageParams == {<<>>, <<Decimal(0)>>, <<Decimal(1)>>, <<Decimal(2)>>, <<MinusOne>>}
LimitParams ==
    {<<>>, <<Decimal(0)>>, <<Decimal(1)>>, <<Decimal(LimitMax)>>, <<Decimal(LimitMax + 1)>>,
     <<MinusOne>>, <<OneAndAHalf>>}

PagingRequests ==
    {[op |-> "list", query |-> JObj(Param(K_page, pg) @@ Param(K_limit, lm))]
        : pg \in PageParams, lm \in LimitParams}

NextPaging ==
    \/ \E p \in Slots, r \in PagingRequests : ReceiveFirst(p, r)
    \/ \E p \in Slots : ListBegin(p)
    \/ \E p \in Slots : ListFind(p)
    \/ \E p \in Slots : ListCount(p)
    \/ \E p \in Slots : ListRespond(p)

SpecPaging == InitSearch /\ [][NextPaging]_vars

(***************************************************************************)
(* POST /upload: the upload middleware in front of the route               *)
(***************************************************************************)
MaxFileSize == 26214400
Suffix_pdf == <<".", "p", "d", "f">>

\* String.prototype.toLowerCase
ToLowerCase(s) == [i \in DOMAIN s |-> Fold(s[i])]
\* String.prototype.endsWith
EndsWith(s, suffix) ==
    Len(s) >= Len(suffix) /\ SubSeq(s, Len(s) - Len(suffix) + 1, Len(s)) = suffix

ErrOnlyPdf == "Only PDF files are allowed"
ErrInvalidType == "Invalid file type. Only PDF files are allowed"
ErrTooLarge == "File too large. Maximum size allowed is 25MB"
ErrNoFile == "No file uploaded. Please upload a PDF file"
ErrEmptyFile == "Uploaded file is empty"

FileUpper == <<"A", ".", "P", "D", "F">>
FileTxt == <<"t", "e", "s", "t", ".", "t", "x", "t">>
FilePdfTxt == <<"a", ".", "p", "d", "f", ".", "t", "x", "t">>
FileNoDot == <<"p", "d", "f">>

\* a multipart request with one file in the field 'pdf', or with none
UploadRequests ==
    {[op |-> "upload_check", hasFile |-> TRUE, fileName |-> n, mimeType |-> t, size |-> s,
      content |-> [pdf |-> TRUE]]
        : n \in {FileA, FileUpper, FileTxt, FilePdfTxt, FileNoDot},
          t \in {MimePdf, "text/plain"},
          s \in {0, 10, MaxFileSize + 1}}
    \cup {[op |-> "upload_check", hasFile |-> FALSE, fileName |-> <<>>, mimeType |-> "",
           size |-> 0, content |-> [pdf |-> FALSE]]}

\* a middleware chain that lets every request through to the route
UploadUnfiltered(p) ==
    /\ pc[p] = "upload_check"
    /\ pc' = [pc EXCEPT ![p] = "upload"]
    /\ UNCHANGED <<req, loc, resp, store, nextId, clock, nReq, aiVars, fileVars, envVars>>

\* uploadSingle (multer with fileFilter and limits), handleUploadError and
\* validateUploadedFile
UploadFilter(p) ==
    /\ pc[p] = "upload_check"
    /\ LET file == req[p] IN
       IF ~file.hasFile THEN Finish(p, "upload", 400, ErrNoFile)
       ELSE IF ~EndsWith(ToLowerCase(file.fileName), Suffix_pdf)
            THEN Finish(p, "upload", 400, ErrOnlyPdf)
       ELSE IF file.mimeType # MimePdf THEN Finish(p, "upload", 400, ErrInvalidType)
       ELSE IF file.size > MaxFileSize THEN Finish(p, "upload", 400, ErrTooLarge)
       ELSE IF file.size = 0 THEN Finish(p, "upload", 400, ErrEmptyFile)
       ELSE /\ pc' = [pc EXCEPT ![p] = "upload"]
            /\ UNCHANGED <<req, loc, resp>>
    /\ UNCHANGED <<store, nextId, clock, nReq, aiVars, fileVars, envVars>>

NextUpload ==
    \/ \E p \in Slots, r \in UploadRequests : Receive(p, r)
    \/ \E p \in Slots : UploadFilter(p)
    \/ \E p \in Slots : UploadFile(p)

SpecUpload == InitFiles /\ [][NextUpload]_vars

(***************************************************************************)
(* Invoice repository properties                                           *)
(***************************************************************************)
\* the fileId of a stored document
FileIdOf(st, id) == st[id].o[K_fileId].s
\* some stored document has this fileId
HasFileId(st, fileId) == \E o \in DOMAIN st : FileIdOf(st, o) = fileId
\* some stored document other than id has this fileId
OwnedByOther(st, id, fileId) == \E o \in DOMAIN st : o # id /\ FileIdOf(st, o) = fileId
\* the fileId a request body asks for, as the validation middleware trims it
AskedFileId(body) == TrimSpaces(body.o[K_fileId].s)
ConflictResponse(op) == [op |-> op, status |-> 409, error |-> ErrConflict]

\* C3: the invoice store never holds two invoices with equal fileId, whatever
\* the interleaving of create, update and delete requests.
C3_UniqueFileId ==
    \A i, j \in DOMAIN store : FileIdOf(store, i) = FileIdOf(store, j) => i = j

\* C3 witness: two creates for one fileId both passed their existence check
\* (two ObjectIds were generated); one was saved, the other was refused at save.
C3_Witness ==
    \E p, q \in Slots :
        /\ resp[p] = [op |-> "create", status |-> 201, error |-> ""]
        /\ resp[q] = ConflictResponse("create")
        /\ nextId = 2
        /\ Cardinality(DOMAIN store) = 1

\* C4: a create whose fileId already belongs to a stored invoice, at its
\* existence check or at its save, is answered 409 "Invoice with this file ID
\* already exists" and leaves the store unchanged.
C4_CreateConflict ==
    [][\A p \in Slots :
          \/ /\ pc[p] = "create" /\ pc'[p] # "create"
             /\ JoiValidate(createInvoiceSchema, req[p].body).ok
             /\ HasFileId(store, AskedFileId(req[p].body))
          \/ /\ pc[p] = "create_save" /\ pc'[p] # "create_save"
             /\ HasFileId(store, loc[p].invoice.o[K_fileId].s)
          => resp'[p] = ConflictResponse("create") /\ store' = store]_vars

\* C4 witness: a create was refused by its existence check (only one ObjectId
\* was ever generated) and the one stored invoice is as it was created.
C4_Witness ==
    \E p \in Slots :
        /\ resp[p] = ConflictResponse("create")
        /\ nextId = 1
        /\ DOMAIN store = {ObjectId(1)}
        /\ K_updatedAt \notin DOMAIN store[ObjectId(1)].o

\* a successful update by slot p is being written in this step
UpdateWrites(p) == pc[p] = "update_db" /\ resp'[p].status = 200

\* C7: fields omitted inside a provided vendor or invoice section
\* keep their stored values (address and taxId when only vendor.name is given,
\* lineItems and currency when the invoice section omits them).
C7_MergeIsolation ==
    [][\A p \in Slots : UpdateWrites(p) =>
          \A sec \in {K_vendor, K_invoice} \cap DOMAIN req[p].body.o :
              \A k \in DOMAIN store[req[p].id].o[sec].o \ DOMAIN req[p].body.o[sec].o :
                  /\ k \in DOMAIN store'[req[p].id].o[sec].o
                  /\ store'[req[p].id].o[sec].o[k] = store[req[p].id].o[sec].o[k]]_vars

\* C8: a successful update changes only the top-level sections present in the
\* partial, plus updatedAt; every other section of the invoice keeps its value
\* and no other invoice is changed.
C8_UpdateFrame ==
    [][\A p \in Slots : UpdateWrites(p) =>
          LET id == req[p].id
              given == DOMAIN req[p].body.o \cup {K_updatedAt}
          IN  /\ DOMAIN store' = DOMAIN store
              /\ \A other \in DOMAIN store \ {id} : store'[other] = store[other]
              /\ DOMAIN store'[id].o \subseteq DOMAIN store[id].o \cup given
              /\ \A k \in DOMAIN store[id].o \ given :
                    k \in DOMAIN store'[id].o /\ store'[id].o[k] = store[id].o[k]]_vars

\* C8 witness: an update of the vendor alone has been applied: the vendor is
\* the new one, the invoice section is still the one created, updatedAt is set.
C8_Witness ==
    \E p \in Slots, id \in DOMAIN store :
        /\ resp[p] = [op |-> "update", status |-> 200, error |-> ""]
        /\ store[id].o[K_vendor] = VendorNameOnly
        /\ store[id].o[K_invoice] = InvoiceFull
        /\ store[id].o[K_fileName] = JStr(FileA)
        /\ K_updatedAt \in DOMAIN store[id].o

\* C9: every successful update sets updatedAt strictly greater than the
\* invoice's previous updatedAt, two updates within one clock value included.
C9_StrictlyGreater ==
    [][\A p \in Slots :
          UpdateWrites(p) /\ K_updatedAt \in DOMAIN store[req[p].id].o =>
              store'[req[p].id].o[K_updatedAt].ms > store[req[p].id].o[K_updatedAt].ms]_vars

\* C10: an update of a well-formed id that no invoice has is answered 404, an
\* update that sets fileId to a value owned by another invoice is answered
\* 409; in both cases the store, the target's updatedAt included, is unchanged.
C10_UpdateErrors ==
    [][\A p \in Slots : pc[p] = "update_db" /\ pc'[p] # "update_db" =>
          LET id == req[p].id
              body == req[p].body
          IN  /\ id \notin DOMAIN store =>
                    /\ resp'[p] = [op |-> "update", status |-> 404, error |-> ErrNotFound]
                    /\ store' = store
              /\ (/\ id \in DOMAIN store
                  /\ K_fileId \in DOMAIN body.o
                  /\ OwnedByOther(store, id, AskedFileId(body))) =>
                    /\ resp'[p] = ConflictResponse("update")
                    /\ store' = store]_vars

\* C10 witness: an update asking for the other invoice's fileId was answered
\* 409 and both stored invoices are as they were created.
C10_Witness ==
    \E p \in Slots :
        /\ resp[p] = ConflictResponse("update")
        /\ Cardinality(DOMAIN store) = 2
        /\ \A id \in DOMAIN store : K_updatedAt \notin DOMAIN store[id].o

\* C11: createdAt is the server's clock reading at creation, whatever createdAt
\* the create body carried, and no step, an update carrying createdAt
\* included, changes the createdAt of a stored invoice.
C11_CreatedAtImmutable ==
    [][/\ \A id \in DOMAIN store' \ DOMAIN store :
             \E p \in Slots :
                /\ pc[p] = "create_save"
                /\ store'[id].o[K_createdAt] = loc[p].invoice.o[K_createdAt]
                /\ store'[id].o[K_createdAt] \in {IsoTime(t) : t \in 1..clock}
       /\ \A id \in DOMAIN store' \cap DOMAIN store :
             store'[id].o[K_createdAt] = store[id].o[K_createdAt]]_vars

\* C11 witness: the invoice created from the body that carried a createdAt has
\* been updated, a millisecond later, by the partial that carried a createdAt;
\* its createdAt is still the clock reading of its creation.
C11_Witness ==
    \E id \in DOMAIN store :
        /\ store[id].o[K_fileId] = JStr(F3)
        /\ store[id].o[K_fileName] = JStr(FileD)
        /\ store[id].o[K_createdAt] = IsoTime(1)
        /\ store[id].o[K_updatedAt] = IsoTime(2)

\* C12: an invoice is stored by a create answered 201 with createdAt and
\* without updatedAt, whatever updatedAt the body carried; an invoice without
\* updatedAt gets one exactly in the step of a successful update of it, and an
\* invoice that has updatedAt keeps having it.
C12_UpdatedAtIffUpdated ==
    [][/\ \A id \in DOMAIN store' \ DOMAIN store :
             /\ \E p \in Slots : pc[p] = "create_save" /\ resp'[p].status = 201
             /\ K_createdAt \in DOMAIN store'[id].o
             /\ K_updatedAt \notin DOMAIN store'[id].o
       /\ \A p \in Slots : pc[p] = "create_save" /\ resp'[p].status = 201 =>
             DOMAIN store' \ DOMAIN store = {loc[p].invoice.o[K_id].s}
       /\ \A id \in DOMAIN store' \cap DOMAIN store :
             /\ K_updatedAt \in DOMAIN store[id].o => K_updatedAt \in DOMAIN store'[id].o
             /\ (\E p \in Slots : UpdateWrites(p) /\ req[p].id = id)
                   => K_updatedAt \in DOMAIN store'[id].o
             /\ (K_updatedAt \notin DOMAIN store[id].o /\ K_updatedAt \in DOMAIN store'[id].o)
                   => \E p \in Slots : UpdateWrites(p) /\ req[p].id = id]_vars

\* C12 witness: the invoice created from the body that carried an updatedAt is
\* stored, its create answered 201, and it has createdAt and no updatedAt.
C12_Witness ==
    \E p \in Slots, id \in DOMAIN store :
        /\ resp[p] = [op |-> "create", status |-> 201, error |-> ""]
        /\ store[id].o[K_fileId] = JStr(F3)
        /\ store[id].o[K_fileName] = JStr(FileC)
        /\ K_createdAt \in DOMAIN store[id].o
        /\ K_updatedAt \notin DOMAIN store[id].o

(***************************************************************************)
(* Search and pagination properties                                        *)
(***************************************************************************)
\* s occurs in f as a substring, letter case ignored
ContainsCI(f, s) ==
    \E i \in 1..(Len(f) + 1) :
        /\ i + Len(s) - 1 <= Len(f)
        /\ \A j \in 1..Len(s) : Fold(f[i + j - 1]) = Fold(s[j])

\* the documents whose vendor name or invoice number contains s
SubstringMatches(st, s) ==
    {id \in DOMAIN st : \/ ContainsCI(st[id].o[K_vendor].o[K_name].s, s)
                        \/ ContainsCI(st[id].o[K_invoice].o[K_number].s, s)}

\* the request of slot p is a list request that passes validation
ValidList(p) == req[p].op = "list" /\ JoiValidate(searchQuerySchema, req[p].query).ok
AskedPage(p) == JoiValidate(searchQuerySchema, req[p].query).v.o[K_page].n
AskedLimit(p) == JoiValidate(searchQuerySchema, req[p].query).v.o[K_limit].n
HasQuery(p) == K_q \in DOMAIN req[p].query.o /\ TrimSpaces(req[p].query.o[K_q].s) # <<>>
AskedQuery(p) == TrimSpaces(req[p].query.o[K_q].s)
\* the filter of the request of slot p
AskedFilter(p) == [q |-> IF HasQuery(p) THEN <<AskedQuery(p)>> ELSE <<>>]

\* the number of items on a page of a result of n items
PageSize(n, page, limit) ==
    LET left == n - (page - 1) * limit IN
    IF left <= 0 THEN 0 ELSE IF left < limit THEN left ELSE limit

\* slot p ends a valid list request in this step
ListEnds(p) == ValidList(p) /\ pc[p] # "idle" /\ pc'[p] = "idle"

\* C5: a valid search with a non-empty query s answers with exactly the
\* invoices whose vendor.name or invoice.number contains s as a
\* case-insensitive substring, restricted to the requested page, whatever
\* characters s holds
C5_SearchCorrectness ==
    [][\A p \in Slots : (ListEnds(p) /\ HasQuery(p)) =>
          /\ resp'[p].status = 200
          /\ \A i \in DOMAIN resp'[p].data :
                resp'[p].data[i] \in {store[id] : id \in SubstringMatches(store, AskedQuery(p))}
          /\ \A i, j \in DOMAIN resp'[p].data : i # j => resp'[p].data[i] # resp'[p].data[j]
          /\ Len(resp'[p].data)
               = PageSize(Cardinality(SubstringMatches(store, AskedQuery(p))),
                          AskedPage(p), AskedLimit(p))]_vars

\* C6: over an unchanged collection, a list response carries as total the
\* number of all documents that match the request's filter, whatever page and
\* limit were asked; pages is the ceiling of total / limit, the page holds at
\* most limit items, and a page beyond the last is empty with the same total
C6_Pagination ==
    [][\A p \in Slots : (ListEnds(p) /\ resp'[p].status = 200) =>
          LET total == resp'[p].pagination.total
              pages == resp'[p].pagination.pages
              limit == AskedLimit(p)
              page == AskedPage(p)
          IN  /\ total = Cardinality({id \in DOMAIN store :
                                         FilterMatches(AskedFilter(p), store[id])})
              /\ pages * limit >= total
              /\ (pages - 1) * limit < total \/ (pages = 0 /\ total = 0)
              /\ Len(resp'[p].data) <= limit
              /\ Len(resp'[p].data) = PageSize(total, page, limit)
              /\ page > pages => resp'[p].data = <<>>]_vars

\* a response to a request for a page beyond the last: no items, though the
\* filter matches some documents, fewer than the collection holds
C6_Witness ==
    \E p \in Slots :
        /\ resp[p].op = "list"
        /\ resp[p].status = 200
        /\ resp[p].pagination.total >= 1
        /\ resp[p].pagination.total < Cardinality(DOMAIN store)
        /\ resp[p].pagination.page > resp[p].pagination.pages
        /\ resp[p].data = <<>>

\* C19: in every list response the items and the total describe the same set
\* of matching invoices, whatever creates and deletes of matching invoices run
\* beside the request: the page never has more items than total, and it has
\* as many items as a result of total items has on that page.
C19_NoDrift ==
    [][\A p \in Slots : (ListEnds(p) /\ resp'[p].status = 200) =>
          /\ Len(resp'[p].data) <= resp'[p].pagination.total
          /\ Len(resp'[p].data)
               = PageSize(resp'[p].pagination.total, AskedPage(p), AskedLimit(p))]_vars

(***************************************************************************)
(* The normalizer on its own: one call of parseAIResponse per behaviour    *)
(***************************************************************************)
InitNorm ==
    /\ aiIn \in [text : ModelTexts, rnd : RandomDraws, today : ClockDates]
    /\ aiOut = <<>>
    /\ ServerIdle

GeminiParse ==
    /\ aiOut = <<>>
    /\ aiOut' = <<[provider |-> "gemini",
                   c |-> GeminiParseAIResponse(aiIn.text, aiIn.rnd, aiIn.today)]>>
    /\ UNCHANGED <<aiIn, serverVars>>

GroqParse ==
    /\ aiOut = <<>>
    /\ aiOut' = <<[provider |-> "groq",
                   c |-> GroqParseAIResponse(aiIn.text, aiIn.rnd, aiIn.today)]>>
    /\ UNCHANGED <<aiIn, serverVars>>

NextNorm == GeminiParse \/ GroqParse

SpecNorm == InitNorm /\ [][NextNorm]_vars

(***************************************************************************)
(* Normalizer properties                                                   *)
(***************************************************************************)
\* what JSON.parse alone makes of the text
ParsedText == JsonParse(Trim(StripFences(aiIn.text)))

\* the value the model's document holds at section.key, undefined when there is none
Supplied(section, key) ==
    IF ParsedText.threw THEN Undefined
    ELSE LET g == ReadField(ParsedText, section, key) IN
         IF g.threw THEN Undefined ELSE g.v

\* result.section.key of a returned result
ResultField(section, key) ==
    LET g == ReadField(aiOut[1].c, section, key) IN
    IF g.threw THEN Undefined ELSE g.v

DigitValue(c) == CHOOSE n \in 0..9 : Digit(n) = c
IsDigit(c) == \E n \in 0..9 : Digit(n) = c
IsLeap(y) == (y % 4 = 0 /\ y % 100 # 0) \/ y % 400 = 0
DaysIn(y, m) ==
    IF m = 2 THEN (IF IsLeap(y) THEN 29 ELSE 28)
    ELSE IF m \in {4, 6, 9, 11} THEN 30 ELSE 31

\* a calendar date written YYYY-MM-DD
IsValidYmd(s) ==
    /\ Len(s) = 10
    /\ s[5] = "-" /\ s[8] = "-"
    /\ \A i \in {1, 2, 3, 4, 6, 7, 9, 10} : IsDigit(s[i])
    /\ LET y == 1000 * DigitValue(s[1]) + 100 * DigitValue(s[2])
                    + 10 * DigitValue(s[3]) + DigitValue(s[4])
           m == 10 * DigitValue(s[6]) + DigitValue(s[7])
           d == 10 * DigitValue(s[9]) + DigitValue(s[10])
       IN  m \in 1..12 /\ d \in 1..DaysIn(y, m)

\* C1: parseAIResponse of either provider never raises: whatever the raw text,
\* the call completes normally with a value that has a vendor and an invoice.
C1_NeverRaises ==
    aiOut # <<>> =>
        /\ ~aiOut[1].c.threw
        /\ LET v == JsGet(aiOut[1].c.v, K_vendor)
               i == JsGet(aiOut[1].c.v, K_invoice)
           IN  /\ ~v.threw /\ v.v # Undefined
               /\ ~i.threw /\ i.v # Undefined

\* C1 witness: a call has returned for a text on which the try block raised
\* (text that is no JSON, JSON null, a scalar, a scalar vendor or invoice).
C1_Witness ==
    /\ aiOut # <<>>
    /\ NormalizeTry(aiIn.text, aiIn.rnd, aiIn.today).threw
    /\ ~ParsedText.threw
    /\ ~aiOut[1].c.threw

K_discount == <<"d", "i", "s", "c", "o", "u", "n", "t">>
K_vat == <<"v", "a", "t">>

\* the percentage a line item holds at key, 0 when it holds none
PercentOf(item, key) ==
    IF key \in DOMAIN item.o /\ item.o[key].t = "num" THEN item.o[key].n ELSE 0

\* total = unitPrice x quantity x (1 - discount/100) x (1 + vat/100), in ten-thousandths
TotalIsRecomputed(item) ==
    item.o[K_total].n * 10000
        = item.o[K_unitPrice].n * item.o[K_quantity].n
            * (100 - PercentOf(item, K_discount)) * (100 + PercentOf(item, K_vat))

\* C13: every line item of a result that has a unitPrice and a quantity carries
\* the total recomputed from unitPrice, quantity, discount and vat, whatever
\* total the model supplied.
C13_TotalsRecomputed ==
    aiOut # <<>> /\ ~aiOut[1].c.threw =>
        LET items == ResultField(K_invoice, K_lineItems) IN
        IsArray(items) =>
            \A i \in DOMAIN items.a :
                (/\ items.a[i].t = "obj"
                 /\ {K_unitPrice, K_quantity, K_total} \subseteq DOMAIN items.a[i].o
                 /\ \A k \in {K_unitPrice, K_quantity, K_total} : items.a[i].o[k].t = "num")
                => TotalIsRecomputed(items.a[i])


\* result.section of a returned result
ResultSection(section) ==
    LET g == JsGet(aiOut[1].c.v, section) IN IF g.threw THEN Undefined ELSE g.v

\* C24: whatever the parsed output holds as vendor and invoice (nothing,
\* null, a string, a number, a boolean, an array), the vendor and the invoice
\* of the result are mappings, never an array or a scalar.
C24_SectionsAreMappings ==
    (aiOut # <<>> /\ ~aiOut[1].c.threw) =>
        /\ ResultSection(K_vendor).t = "obj"
        /\ ResultSection(K_invoice).t = "obj"


\* the text of the empty object
EmptyObjectText == <<TP("{"), TP("}")>>
\* parseAIResponse of the provider that made the result, on another text
SameProviderOn(text) ==
    IF aiOut[1].provider = "groq" THEN GroqParseAIResponse(text, aiIn.rnd, aiIn.today)
    ELSE GeminiParseAIResponse(text, aiIn.rnd, aiIn.today)
\* the catch block made the result
CatchTaken == aiOut # <<>> /\ NormalizeTry(aiIn.text, aiIn.rnd, aiIn.today).threw
IsDocNumber(s) ==
    /\ Len(s) = 8
    /\ SubSeq(s, 1, 4) = <<"D", "O", "C", "-">>
    /\ \A i \in 5..8 : IsDigit(s[i])

\* C25: the result for a text that cannot be parsed is the result for the
\* text {}: with the same random draw and clock, every field of the vendor
\* and the invoice reads the same in both and both are the same JSON. The
\* vendor name is Unknown Vendor, the currency USD, lineItems is empty, the
\* date is today's and the number is DOC- and four decimal digits.
C25_ShellEqualsEmptyInput ==
    CatchTaken =>
        LET shell == aiOut[1].c
            empty == SameProviderOn(EmptyObjectText)
        IN  /\ ~shell.threw /\ ~empty.threw
            /\ JsonForm(shell.v) = JsonForm(empty.v)
            /\ \A sec \in {K_vendor, K_invoice} :
                  \A k \in DOMAIN shell.v.o[sec].o \cup DOMAIN empty.v.o[sec].o :
                      ReadField(shell, sec, k) = ReadField(empty, sec, k)
            /\ ResultField(K_vendor, K_name) = JStr(<<"U", "n", "k", "n", "o", "w", "n", " ",
                                                      "V", "e", "n", "d", "o", "r">>)
            /\ ResultField(K_invoice, K_currency) = JStr(<<"U", "S", "D">>)
            /\ ResultField(K_invoice, K_lineItems) = JArr(<<>>)
            /\ ResultField(K_invoice, K_date) = JStr(IsoDate(aiIn.today))
            /\ IsValidYmd(ResultField(K_invoice, K_date).s)
            /\ IsDocNumber(ResultField(K_invoice, K_number).s)

\* a text that JSON.parse refuses has been answered with the shell, the
\* same JSON as the result for {}
C25_Witness ==
    /\ aiOut # <<>>
    /\ ParsedText.threw
    /\ aiIn.text # <<>>
    /\ ~aiOut[1].c.threw
    /\ JsonForm(aiOut[1].c.v) = JsonForm(SameProviderOn(EmptyObjectText).v)


\* the fields that have a default
Defaultable ==
    {<<K_vendor, K_name>>, <<K_invoice, K_number>>, <<K_invoice, K_date>>,
     <<K_invoice, K_currency>>}

\* C26: the values the model supplied are in the result unchanged; replaced
\* are only a vendor.name, invoice.number, invoice.date or invoice.currency
\* that is missing or null, and an invoice.lineItems that is not an array.
C26_PassThrough ==
    (aiOut # <<>> /\ ~aiOut[1].c.threw /\ ~ParsedText.threw /\ ParsedText.v.t = "obj") =>
        \A sec \in {K_vendor, K_invoice} \cap DOMAIN ParsedText.v.o :
            ParsedText.v.o[sec].t = "obj" =>
                \A k \in DOMAIN ParsedText.v.o[sec].o :
                    LET given == ParsedText.v.o[sec].o[k]
                        replaced == \/ <<sec, k>> \in Defaultable /\ given = JNull
                                    \/ sec = K_invoice /\ k = K_lineItems /\ given.t # "arr"
                    IN  ~replaced => ResultField(sec, k) = given

(***************************************************************************)
(* Properties of the id format check                                       *)
(***************************************************************************)
WellFormedId(id) == Len(id) = 24 /\ \A i \in DOMAIN id : id[i] \in HexChars
ByIdStarts(p) == pc[p] \in {"get", "update", "delete"} /\ pc'[p] # pc[p]
ByIdLooksUp(p) == pc[p] \in {"get_db", "update_db", "delete"} /\ pc'[p] = "idle"

\* C18: for GET, PUT and DELETE /invoices/:id the format check comes before
\* the lookup. An id that is not 24 hexadecimal characters is answered 400 in
\* the first step of the handler, which never gets to its database call and
\* leaves the collection unchanged; a well-formed id without an invoice is
\* answered 404 'Invoice not found', a different error.
C18_FormatBeforeLookup ==
    [][\A p \in Slots :
          /\ ByIdStarts(p) /\ ~WellFormedId(req[p].id) =>
                /\ pc'[p] = "idle"
                /\ resp'[p].op = pc[p]
                /\ resp'[p].status = 400
                /\ resp'[p].error \in {ErrIdFormat, ErrValidation}
                /\ resp'[p].error = ErrValidation => pc[p] = "update"
                /\ store' = store
          /\ pc'[p] \in {"get_db", "update_db"} => WellFormedId(req'[p].id)
          /\ (ByIdLooksUp(p) /\ WellFormedId(req[p].id) /\ req[p].id \notin DOMAIN store) =>
                /\ resp'[p].status = 404
                /\ resp'[p].error = ErrNotFound
                /\ store' = store]_vars

\* a malformed id answered 400 and a well-formed unused id answered 404, both
\* by GET, with an invoice stored
C18_Witness ==
    /\ \E p, q \in Slots :
          /\ resp[p] = [op |-> "get", status |-> 400, error |-> ErrIdFormat]
          /\ resp[q] = [op |-> "get", status |-> 404, error |-> ErrNotFound]
    /\ DOMAIN store = {ObjectId(1)}

(***************************************************************************)
(* Properties of two racing updates                                        *)
(***************************************************************************)
Sections == {K_fileName, K_vendor, K_invoice}
BothDone == \A p \in Slots : pc[p] = "idle" /\ resp[p].status = 200

\* C20 as stated: racing updates are last-write-wins with full-document
\* replace. After a write the invoice is determined by that write alone: a
\* section its partial does not provide shows no change of an earlier writer,
\* it has the value the invoice was created with.
C20_Original ==
    [][\A p \in Slots : UpdateWrites(p) =>
          \A k \in Sections \ DOMAIN req[p].body.o :
              store'[req[p].id].o[k] = RaceInvoice.o[k]]_vars

\* C20: racing updates are last-write-wins for each top-level section. Every
\* write is one atomic step that sets the sections its partial provides, to
\* the validated values, and updatedAt, to the stamp its handler took, and
\* leaves every other section as the earlier writes left it.
C20_LastWriteWinsPerSection ==
    [][\A p \in Slots : UpdateWrites(p) =>
          LET id == req[p].id
              given == JoiValidate(updateInvoiceSchema, req[p].body).v.o
          IN  /\ \A k \in DOMAIN given : store'[id].o[k] = given[k]
              /\ store'[id].o[K_updatedAt] = loc[p].updateData.o[K_updatedAt]
              /\ \A k \in DOMAIN store[id].o \ (DOMAIN given \cup {K_updatedAt}) :
                    store'[id].o[k] = store[id].o[k]
              /\ DOMAIN store'[id].o = DOMAIN store[id].o \cup {K_updatedAt}]_vars

\* both requests are answered; the vendor is the one of one writer and the
\* invoice number the one of the other
C20_Witness ==
    /\ BothDone
    /\ store[ObjectId(1)].o[K_vendor] = VendorNameOnly
    /\ store[ObjectId(1)].o[K_invoice].o[K_number] = JStr(Inv2)
    /\ store[ObjectId(1)].o[K_fileName] = RaceInvoice.o[K_fileName]

(***************************************************************************)
(* Extraction and file storage properties                                  *)
(***************************************************************************)
ExtractAnswers(p) == pc[p] = "extract_parse" /\ pc'[p] = "idle"

HasVendorAndInvoice(r) ==
    /\ "extractedData" \in DOMAIN r
    /\ r.extractedData.t = "obj"
    /\ {K_vendor, K_invoice} \subseteq DOMAIN r.extractedData.o

\* C14: once the download, the PDF text extraction and the model call have all
\* succeeded, extractInvoiceData of either provider returns a result with a
\* vendor and an invoice, whatever text the model returned (prose, a document
\* cut short, or no text at all), and the route answers 200 with it.
C14_MalformedTolerated ==
    [][\A p \in Slots :
          ExtractAnswers(p) => resp'[p].status = 200 /\ HasVendorAndInvoice(resp'[p])]_vars

ExtractStates == {"extract", "extract_pdf", "extract_model", "extract_parse"}
ExtractSteps(p) == pc[p] \in ExtractStates /\ pc'[p] # pc[p]

\* C15: POST /extract persists nothing. No step of its handler, whether the
\* request goes on, fails or succeeds, changes the invoice collection or the
\* stored files; the extracted data exists only in the response.
C15_ExtractPersistsNothing ==
    [][\A p \in Slots :
          ExtractSteps(p) =>
             /\ store' = store /\ nextId' = nextId
             /\ bucket' = bucket /\ blobs' = blobs /\ nextUuid' = nextUuid
             /\ (pc'[p] = "idle" => /\ resp'[p].op = "extract"
                                    /\ resp'[p].status \in {200, 400, 500}
                                    /\ resp'[p].status = 200 <=> HasVendorAndInvoice(resp'[p]))]_vars

\* an extraction answered with data and one that failed, after which the one
\* uploaded file is all that is stored
C15_Witness ==
    \E p, q \in Slots :
       /\ resp[p].op = "extract" /\ resp[p].status = 200 /\ HasVendorAndInvoice(resp[p])
       /\ resp[q].op = "extract" /\ resp[q].status = 500
       /\ store = <<>>
       /\ DOMAIN bucket = {GridFsId(Uuid(1))[1]}

FileStates == {"file_info", "file_download", "file_download_body", "file_delete"}
FileAnswers(p) == pc[p] \in FileStates /\ pc'[p] = "idle"

\* the provider returned this fileId from an upload and the file was not deleted
KnownFile(fileId) ==
    IF provider = "vercel" THEN \E name \in {FileA} : (fileId \o <<"-">> \o name) \in blobs
    ELSE \E id \in DOMAIN bucket : bucket[id].fileId = fileId

\* C16: on either provider getFileInfo, download and delete of a fileId that no
\* upload returned, or whose file was deleted, fail as not found: the upload
\* routes answer 404 and storage is unchanged. A second delete of a fileId is
\* such a failure, and so is the use of a fileId that shares a prefix with an
\* uploaded one.
C16_UnknownIsNotFound ==
    [][\A p \in Slots :
          FileAnswers(p) /\ ~KnownFile(req[p].fileId) =>
             /\ resp'[p].status = 404
             /\ bucket' = bucket
             /\ blobs' = blobs]_vars

InvoiceDeleteAnswers(p) == pc[p] = "delete" /\ pc'[p] = "idle"
Retrievable(bk, fileId) ==
    StorageGetFileInfo(provider, bk, fileId).ok /\ StorageDownload(provider, bk, fileId).ok

\* C17: DELETE /invoices/:id does not cascade to the stored files. The step
\* that deletes an invoice leaves the storage provider as it was, so the file
\* the invoice referred to stays retrievable; a file leaves storage only in
\* the step of a DELETE /upload/:fileId.
C17_NoCascade ==
    [][/\ \A p \in Slots :
             InvoiceDeleteAnswers(p) =>
                /\ bucket' = bucket /\ blobs' = blobs
                /\ \A id \in DOMAIN store \ DOMAIN store' :
                      Retrievable(bucket, FileIdOf(store, id))
                         => Retrievable(bucket', FileIdOf(store, id))
       /\ \A id \in DOMAIN bucket \ DOMAIN bucket' :
             \E p \in Slots : pc[p] = "file_delete" /\ pc'[p] = "idle"]_vars

\* the invoice of an uploaded file was deleted and the file can still be got
C17_Witness ==
    /\ \E p \in Slots : resp[p].op = "delete" /\ resp[p].status = 200
    /\ store = <<>>
    /\ nextId = 1
    /\ Retrievable(bucket, Uuid(1))

(***************************************************************************)
(* Properties of the validation boundary                                   *)
(***************************************************************************)
\* the constraints a vendor or an invoice section of a body can break
VendorBreaks(v) ==
    v.t # "obj" \/ K_name \notin DOMAIN v.o \/ v.o[K_name].t # "str" \/ v.o[K_name].s = <<>>
ItemBreaks(item) ==
    \E k \in {K_unitPrice, K_quantity, K_total} :
        k \notin DOMAIN item.o \/ (item.o[k].t = "num" /\ item.o[k].n < 0)
InvoiceBreaks(i) ==
    \/ i.t # "obj"
    \/ K_number \notin DOMAIN i.o
    \/ K_date \notin DOMAIN i.o
    \/ K_taxPercent \in DOMAIN i.o /\ i.o[K_taxPercent].t = "num"
          /\ (i.o[K_taxPercent].n < 0 \/ i.o[K_taxPercent].n > 100)
    \/ K_lineItems \in DOMAIN i.o /\ i.o[K_lineItems].t = "arr"
          /\ \E n \in DOMAIN i.o[K_lineItems].a : ItemBreaks(i.o[K_lineItems].a[n])
BodyBreaks(op, body) ==
    \/ op = "create" /\ \E k \in {K_fileId, K_fileName, K_vendor, K_invoice} :
                            k \notin DOMAIN body.o
    \/ K_vendor \in DOMAIN body.o /\ VendorBreaks(body.o[K_vendor])
    \/ K_invoice \in DOMAIN body.o /\ InvoiceBreaks(body.o[K_invoice])

ShapeChecked(p) == pc[p] \in {"create", "update"} /\ pc'[p] # pc[p]

\* C21: a create or update whose body breaks a shape or range constraint (no
\* vendor.name, a line item with a negative unitPrice, taxPercent above 100)
\* is answered 400 'Validation error' by the first step of the request; the
\* handler's database steps are never reached for it and the collection is
\* as it was, with nothing of the body applied.
C21_NoPartialApply ==
    [][\A p \in Slots :
          /\ (ShapeChecked(p) /\ BodyBreaks(pc[p], req[p].body)) =>
                /\ pc'[p] = "idle"
                /\ resp'[p] = [op |-> pc[p], status |-> 400, error |-> ErrValidation]
                /\ store' = store
                /\ nextId' = nextId
          /\ pc'[p] \in {"create_new", "create_save", "update_db"}
                => ~BodyBreaks(req'[p].op, req'[p].body)]_vars

\* an update and a create were both answered 400 while an invoice is stored,
\* which is still as it was created
C21_Witness ==
    \E p, q \in Slots :
       /\ resp[p] = [op |-> "update", status |-> 400, error |-> ErrValidation]
       /\ resp[q] = [op |-> "create", status |-> 400, error |-> ErrValidation]
       /\ DOMAIN store = {ObjectId(1)}
       /\ store[ObjectId(1)].o[K_vendor] = VendorFull
       /\ K_updatedAt \notin DOMAIN store[ObjectId(1)].o

\* a parameter of the query string that is given and is not a whole number
\* between lo and hi
OutOfRange(query, k, lo, hi) ==
    /\ k \in DOMAIN query.o
    /\ ~(/\ IsDigits(query.o[k].s)
         /\ DigitsValue(query.o[k].s) >= lo
         /\ DigitsValue(query.o[k].s) <= hi)
\* the number a parameter stands for, dflt when it is not given
ParamValue(query, k, dflt) ==
    IF k \in DOMAIN query.o THEN DigitsValue(query.o[k].s) ELSE dflt
BadPaging(query) ==
    OutOfRange(query, K_page, 1, 1000000) \/ OutOfRange(query, K_limit, 1, 100)

\* C22: a list request with page below 1 or limit outside 1..100 is answered
\* 400 'Validation error' in its first step, before any query of the
\* collection; a request that is served is served with the page and the limit
\* it asked for (1 and 10 when not given), never with other ones.
C22_PagingRejected ==
    [][\A p \in Slots :
          /\ (pc[p] = "list" /\ pc'[p] # "list" /\ BadPaging(req[p].query)) =>
                /\ pc'[p] = "idle"
                /\ resp'[p] = [op |-> "list", status |-> 400, error |-> ErrValidation]
                /\ store' = store
          /\ pc'[p] = "list_queries" =>
                /\ ~BadPaging(req'[p].query)
                /\ loc'[p].skip = (ParamValue(req'[p].query, K_page, 1) - 1)
                                     * ParamValue(req'[p].query, K_limit, 10)
                /\ loc'[p].limit = ParamValue(req'[p].query, K_limit, 10)
          /\ (pc[p] = "list_queries" /\ pc'[p] = "idle" /\ resp'[p].status = 200) =>
                /\ resp'[p].pagination.page = ParamValue(req[p].query, K_page, 1)
                /\ resp'[p].pagination.limit = ParamValue(req[p].query, K_limit, 10)
                /\ Len(resp'[p].data) <= ParamValue(req[p].query, K_limit, 10)]_vars

\* a list request over a collection of four invoices was answered 400
C22_Witness ==
    \E p \in Slots :
       /\ resp[p] = [op |-> "list", status |-> 400, error |-> ErrValidation]
       /\ Cardinality(DOMAIN store) = 4
       /\ nReq = 1

(***************************************************************************)
(* Properties of the upload filter                                         *)
(***************************************************************************)
\* the name ends in .pdf, in any letter case
NamedPdf(name) ==
    /\ Len(name) >= 4
    /\ name[Len(name) - 3] = "."
    /\ name[Len(name) - 2] \in {"p", "P"}
    /\ name[Len(name) - 1] \in {"d", "D"}
    /\ name[Len(name)] \in {"f", "F"}
IsPdfUpload(r) == r.hasFile /\ NamedPdf(r.fileName) /\ r.mimeType = "application/pdf"
Acceptable(r) == IsPdfUpload(r) /\ r.size > 0
FilterDecides(p) == pc[p] = "upload_check" /\ pc'[p] # "upload_check"
StorageKept == bucket' = bucket /\ blobs' = blobs /\ nextUuid' = nextUuid
\* the answers that name the allowed type
NamesPdf == {ErrOnlyPdf, ErrInvalidType, ErrNoFile}

KeyMissing(p) ==
    /\ pc[p] = "extract"
    /\ JoiValidate(extractRequestSchema, req[p].body).ok
    /\ ApiKeyOf(req[p].body.o[K_model].s) \notin apiKeys

\* the step of slot p reads storage, calls the model
ReadsStorage(p) == pc[p] = "extract_pdf" /\ pc'[p] # "extract_pdf"
CallsModel(p) == pc[p] = "extract_model" /\ pc'[p] # "extract_model"

\* C27: in POST /extract the key check of the provider's constructor comes before
\* the download from storage, which comes before the call of the model: a request
\* waits for its download only after its provider's key was found set, and for
\* the model only after its download; with the key missing the request ends at
\* once with status 500 and the constructor's message, having left the stored
\* files alone, read no file and called no model
C27_KeyCheckFirst ==
    [][\A p \in Slots :
          /\ (pc'[p] = "extract_pdf" /\ pc[p] # "extract_pdf")
                => /\ pc[p] = "extract"
                   /\ ApiKeyOf(loc'[p].model) \in apiKeys
          /\ (pc'[p] = "extract_model" /\ pc[p] # "extract_model") => ReadsStorage(p)
          /\ (pc'[p] = "extract_parse" /\ pc[p] # "extract_parse") => CallsModel(p)
          /\ (KeyMissing(p) /\ pc'[p] # "extract")
                => /\ pc'[p] = "idle"
                   /\ resp'[p].op = "extract" /\ resp'[p].status = 500
                   /\ resp'[p].error = ErrNoApiKey(req[p].body.o[K_model].s)
                   /\ bucket' = bucket /\ blobs' = blobs]_vars

\* a file is stored, the Groq key is not set, and an extraction with Groq was
\* answered 500 with the constructor's message
C27_Witness ==
    /\ "GROQ_API_KEY" \notin apiKeys
    /\ bucket # <<>>
    /\ \E p \in Slots : /\ resp[p].op = "extract" /\ resp[p].status = 500
                        /\ resp[p].error = ErrNoApiKey(S_groq)

(***************************************************************************)
(* Properties of upload followed by download and getFileInfo               *)
(***************************************************************************)
\* the step of slot p is an upload that returned the metadata of a new file
UploadReturns(p) == pc[p] = "upload" /\ pc'[p] = "idle" /\ resp'[p].status = 201

\* download(fileId) and getFileInfo(fileId) on the service that stored the file
\* give back the bytes, the fileId, the name and the mime type
RoundTrips(prov, bk, fileId, file) ==
    /\ StorageDownload(prov, bk, fileId).ok
    /\ StorageDownload(prov, bk, fileId).v = file.content
    /\ StorageGetFileInfo(prov, bk, fileId).ok
    /\ StorageGetFileInfo(prov, bk, fileId).v
          = [fileId |-> fileId, fileName |-> file.fileName, mimeType |-> file.mimeType]

\* C28: on either storage service, once upload(bytes, fileName, mimeType) has
\* returned a fileId, download(fileId) returns the uploaded bytes and
\* getFileInfo(fileId) returns that fileId, fileName and mimeType, for each file
\* uploaded
C28_RoundTrip ==
    [][\A p \in Slots :
          UploadReturns(p) => RoundTrips(provider, bucket', Uuid(nextUuid'), req[p])]_vars

(***************************************************************************)
(* Properties of the database connection                                   *)
(***************************************************************************)
\* the step of slot p is a connect() call that found the state it is given
ConnectFinds(p, states) ==
    /\ pc[p] \in {"api", "health"} /\ pc'[p] # pc[p]
    /\ ~IsConnectedToDatabase(db)
    /\ db.readyState \in states

\* C29: a connect() call that finds the connection connected or connecting starts
\* no connection attempt, and at any time the attempts in progress and the
\* connections open are at most one together
C29_ConnectOnce ==
    [][/\ \A p \in Slots :
             ConnectFinds(p, {Connected, Connecting})
                => db'.attempts = db.attempts /\ db'.conns = db.conns
       /\ db'.attempts + db'.conns <= 1]_vars

\* two requests were served over one connection: one of them found the
\* connection connecting and waited for the attempt of the other
C29_Witness ==
    /\ db.waited /\ db.conns = 1 /\ db.attempts = 0
    /\ \A p \in Slots : resp[p].op = "api" /\ resp[p].status = 200

\* C30: whenever the database middleware calls the handler of an /api route the
\* connection is open; otherwise the request is answered 503 and its handler
\* never runs
C30_HandlerNeedsConnection ==
    [][\A p \in Slots :
          /\ (pc'[p] = "handler" /\ pc[p] # "handler") => db'.readyState = Connected
          /\ (pc[p] \in {"api", "db_opening", "db_waiting", "db_resumed"}
                /\ req[p].op = "api" /\ pc'[p] = "idle")
                => resp'[p].status = 503]_vars
====
